---- MODULE Spec2Model ----
(***************************************************************************)
(* Verification model of the omomatrix client core:                        *)
(*   - MatrixClient.get_hierarchy        (src/matrix/client.py)            *)
(*   - MediaManager.get_media            (src/matrix/media_manager.py)     *)
(*   - AvatarManager.get_avatar          (src/matrix/avatar_manager.py)    *)
(*   - the download semaphore of both managers under load                  *)
(*   - MatrixClient.get_user_profile     (src/matrix/client.py)            *)
(*   - MatrixClient.login / restore_session / logout                       *)
(*   - CredentialStorage                 (src/matrix/storage.py)           *)
(*   - MatrixClient.start_sync / _sync_loop / stop_sync                    *)
(*   - MatrixClient.join_room / leave_room                                 *)
(*   - VerificationDialog    (src/gui/verification_dialog.py) and the      *)
(*     verification table it drives                                        *)
(*   - AvatarManager.clear_cache         (src/matrix/avatar_manager.py)    *)
(*   - MessageView                       (src/gui/message_view.py)         *)
(*   - OMOMatrixApp.do_activate / _restore_session (src/gui/application.py)*)
(* Strings that the code compares are modelled as tuples of code points.   *)
(***************************************************************************)
EXTENDS Integers, Sequences, FiniteSets, TLC

VARIABLES
    \* ---- room hierarchy (MatrixClient) ----
    client,            \* "none" | "ready": self.client
    rooms,             \* self.client.rooms: sequence (dict insertion order) of room records
    hashSeed,          \* per-process string hash seed (fixes set iteration order)
    hier,              \* result of the latest get_hierarchy call, or NoResult
    prevHier,          \* result of the call before it, or NoResult
    nCalls,            \* number of get_hierarchy calls made on this snapshot
    \* ---- media / avatar manager ----
    mgr,               \* "media" | "avatar": which manager class this instance is
    path_cache,        \* self._path_cache: set of cache keys that map to their cache path
    failure_cache,     \* self._failure_cache: set of content references
    disk,              \* cache keys whose cache file exists in cache_dir
    active_downloads,  \* self._active_downloads: function cache key -> task id
    tasks,             \* function task id -> record of the _download task
    sem_value,         \* self._download_semaphore._value
    callers,           \* function caller id -> record of one get_media / get_avatar call
    \* ---- the download semaphore of a manager under load ----
    crowd,             \* numbers of _download tasks per stage: waiting, woken, inside
    probe,             \* one more _download task, followed individually
    \* ---- profile cache (MatrixClient.get_user_profile) ----
    profile_cache,     \* self._profile_cache: function user id -> profile record
    profile_file,      \* the file cache_dir/profiles.json
    profile_requests,  \* self._profile_requests: function user id -> task id
    ptasks,            \* function task id -> record of the _fetch task
    pcallers,          \* function caller id -> record of one get_user_profile call
    save_ok,           \* history: no _save_profile_cache of this process has failed
    prev_run,          \* history: profile cache and save_ok of the previous process
    \* ---- session (MatrixClient.login / restore_session / logout) ----
    homeserver,        \* self.homeserver, "None" when not set
    creds,             \* the row with id = 1 of the credentials table, or NoRow
    nio,               \* user, device_id and access_token of self.client
    objs,              \* the AsyncClient objects constructed so far: "open" | "closed"
    op,                \* the login / restore_session / logout call that is running
    \* ---- sync loop (MatrixClient.start_sync / _sync_loop / stop_sync) ----
    on_sync,           \* self.on_sync: the registered sync observer, "None" when not set
    sync_task,         \* self._sync_task: id of a _sync_loop task, 0 for None
    loops,             \* function task id -> record of the _sync_loop task
    served,            \* number of SyncResponse objects received so far; they are numbered
    calls,             \* the invocations of the sync observer, in order
    stopper,           \* the stop_sync call that is running
    \* ---- room membership (MatrixClient.join_room / leave_room) ----
    joined,            \* the rooms the server has the user joined to
    mcalls,            \* function caller id -> record of one join_room / leave_room call
    \* ---- device verification (verification table, VerificationDialog) ----
    vtable,            \* the verification table: function transaction id -> transaction record
    dialog,            \* the VerificationDialog window
    \* ---- credential storage (CredentialStorage) ----
    cred_table,        \* the rows of the credentials table
    saved,             \* the arguments of the latest save_credentials since the last clear, or NoSave
    loaded,            \* what the latest load_credentials / has_credentials call returned
    \* ---- the rounds of the sync loop (MatrixClient._sync_loop) ----
    cb_raised,         \* whether the latest invocation of the sync observer raised
    keys_due,          \* whether a sync response has left a key query or key upload outstanding
    \* ---- message view (MessageView) ----
    current_room_id,   \* self.current_room_id, or "None"
    message_list,      \* the rows of self.message_list: LoadMoreRow or the id of the event shown
    shown_event_ids,   \* self._shown_event_ids
    prev_batch,        \* self.prev_batch: a pagination token, or NoToken
    fetches,           \* function task id -> record of one _fetch_history task
    more,              \* the load-more button and the _load_more_history task
    timeline,          \* the server's timeline: function room id -> number of messages
    delivered,         \* function room id -> number of messages the sync has delivered
    \* ---- application startup (OMOMatrixApp) ----
    app                \* the application: activation, the _restore_session task, hold count, windows

hvars == <<client, rooms, hashSeed, hier, prevHier, nCalls>>
mvars == <<mgr, path_cache, failure_cache, disk, active_downloads, tasks, sem_value, callers>>
svars == <<crowd, probe>>
pvars == <<profile_cache, profile_file, profile_requests, ptasks, pcallers, save_ok, prev_run>>
cvars == <<homeserver, creds, nio, objs, op>>
yvars == <<on_sync, sync_task, loops, served, calls, stopper>>
gvars == <<joined, mcalls>>
vvars == <<vtable, dialog>>
dvars == <<cred_table, saved, loaded>>
kvars == <<cb_raised, keys_due>>
wvars == <<current_room_id, message_list, shown_event_ids, prev_batch, fetches, more, timeline, delivered>>
avars == <<app>>
nonhier == <<mvars, svars, pvars, cvars, yvars, gvars, vvars, dvars, kvars, wvars, avars>>
nonmedia == <<hvars, svars, pvars, cvars, yvars, gvars, vvars, dvars, kvars, wvars, avars>>
nonslots == <<hvars, pvars, cvars, yvars, gvars, vvars, dvars, kvars, wvars, avars>>
nonprofile == <<rooms, hashSeed, hier, prevHier, nCalls, mvars, svars, cvars, yvars, gvars, vvars, dvars, kvars, wvars, avars>>
nonsession == <<rooms, hashSeed, hier, prevHier, nCalls, mvars, svars, pvars, yvars, gvars, vvars, dvars, kvars, wvars, avars>>
nonsync == <<hvars, mvars, svars, pvars, cvars, gvars, vvars, dvars, kvars, wvars, avars>>
nonmember == <<rooms, hashSeed, hier, prevHier, nCalls, mvars, svars, pvars, cvars, yvars, vvars, dvars, kvars, wvars, avars>>
nonverif == <<hvars, mvars, svars, pvars, cvars, yvars, gvars, dvars, kvars, wvars, avars>>
nonstore == <<hvars, mvars, svars, pvars, cvars, yvars, gvars, vvars, kvars, wvars, avars>>
nonrounds == <<hvars, mvars, svars, pvars, cvars, gvars, vvars, dvars, wvars, avars>>
nonview == <<hvars, mvars, svars, pvars, cvars, yvars, gvars, vvars, dvars, kvars, avars>>
nonapp == <<hvars, mvars, svars, pvars, cvars, yvars, gvars, vvars, dvars, kvars, wvars>>
nonstartup == <<rooms, hashSeed, hier, prevHier, nCalls, mvars, svars, pvars, yvars, gvars, vvars, dvars, kvars, wvars>>
vars == <<client, rooms, hashSeed, hier, prevHier, nCalls,
          mgr, path_cache, failure_cache, disk, active_downloads, tasks, sem_value, callers,
          crowd, probe,
          profile_cache, profile_file, profile_requests, ptasks, pcallers, save_ok, prev_run,
          homeserver, creds, nio, objs, op,
          on_sync, sync_task, loops, served, calls, stopper,
          joined, mcalls,
          vtable, dialog,
          cred_table, saved, loaded,
          cb_raised, keys_due,
          current_room_id, message_list, shown_event_ids, prev_batch, fetches, more, timeline, delivered,
          app>>

(***************************************************************************)
(* Bounds                                                                  *)
(***************************************************************************)
MaxRooms == 3
MaxPointers == 2
MaxSeed == 1
MaxCalls == 2
MaxCallers == 2
MaxTasks == 2
MaxExtra == 2
MaxClients == 2
MaxLoops == 2
MaxSyncs == 2

(***************************************************************************)
(* Strings as tuples of code points                                        *)
(***************************************************************************)
Range(s) == {s[i] : i \in DOMAIN s}

LowerChar(c) == IF c >= 65 /\ c <= 90 THEN c + 32 ELSE c

Lower(s) == [i \in DOMAIN s |-> LowerChar(s[i])]

Min2(a, b) == IF a <= b THEN a ELSE b

\* Python str "<": lexicographic by code point, a proper prefix is smaller
StrLess(a, b) ==
    \/ \E i \in 1..Min2(Len(a), Len(b)) :
          /\ a[i] < b[i]
          /\ \A j \in 1..(i - 1) : a[j] = b[j]
    \/ /\ Len(a) < Len(b)
       /\ \A j \in 1..Len(a) : a[j] = b[j]

StrLeq(a, b) == ~StrLess(b, a)

\* Room ids: 0 is an id that is never joined; 1..MaxRooms are joinable.
\* "!b", "!B", "!a", "!A", "!c" ; the never-joined id is "!x"
RoomIdChars == <<98, 66, 97, 65, 99>>

IdStr(i) == IF i = 0 THEN <<33, 120>> ELSE <<33, RoomIdChars[i]>>

\* display names a room may carry: "B", "a", "b", "A", "C" for rooms 1..5;
\* a room has either its name or no display name (<< >>)
RoomNames == <<(<<66>>), (<<97>>), (<<98>>), (<<65>>), (<<67>>)>>

DisplayName(i, named) == IF named THEN RoomNames[i] ELSE << >>

NoResult == [none |-> TRUE]

EmptyMap == << >>

RoomTypes == {"m.space", "none"}

(***************************************************************************)
(* MatrixClient.get_hierarchy                                              *)
(***************************************************************************)
\* joined_ids = set(rooms.keys())
JoinedIds == {rooms[i].id : i \in DOMAIN rooms}

\* rooms.get(rid)
RoomOf(rid) == CHOOSE r \in Range(rooms) : r.id = rid

\* Mutant: the iteration order of a set differs from one call to the next
HashSlotPerCall(x) == ((hashSeed + nCalls + 1) * (x + 1)) % 7

\* Slot of a room-id string in a hash table: fixed by the process's hash seed
HashSlot(x) == ((hashSeed + 1) * (x + 1)) % 7

\* Iteration order of a Python set of room ids (also list(set(xs)))
RECURSIVE SetToList(_)
SetToList(S) ==
    IF S = {} THEN << >>
    ELSE LET x == CHOOSE e \in S : \A y \in S : HashSlot(e) <= HashSlot(y)
         IN  <<x>> \o SetToList(S \ {x})

\* m.setdefault(k, []).append(v)
MapAppend(m, k, v) ==
    IF k \in DOMAIN m
    THEN [m EXCEPT ![k] = Append(@, v)]
    ELSE [x \in DOMAIN m \cup {k} |-> IF x = k THEN <<v>> ELSE m[x]]

\* m[k] = v
MapSet(m, k, v) == [x \in DOMAIN m \cup {k} |-> IF x = k THEN v ELSE m[x]]

\* spaces_map[room_id] = (room.room_type == "m.space")
SpacesMap == [rid \in JoinedIds |-> RoomOf(rid).room_type = "m.space"]

\* valid_children = [cid for cid in room.children if cid in joined_ids]
ValidChildren(room) ==
    LET IsJoined(c) == c \in JoinedIds
    IN  SelectSeq(SetToList(room.children), IsJoined)

\* Mutant: parents outside the joined set are not filtered out
ValidParentsUnfiltered(room) == SetToList(room.parents)

\* valid_parents = [pid for pid in room.parents if pid in joined_ids]
ValidParents(room) ==
    LET IsJoined(p) == p \in JoinedIds
    IN  SelectSeq(SetToList(room.parents), IsJoined)

\* Mutant: a declared child does not get the declaring room as its parent
LinkChildrenDropped(pm, vc, rid) == pm

\* for cid in valid_children: parents_map.setdefault(cid, []).append(room_id)
RECURSIVE LinkChildren(_, _, _)
LinkChildren(pm, vc, rid) ==
    IF vc = << >> THEN pm
    ELSE LinkChildren(MapAppend(pm, Head(vc), rid), Tail(vc), rid)

\* for pid in valid_parents:
\*     parents_map.setdefault(room_id, []).append(pid)
\*     children_map.setdefault(pid, []).append(room_id)
RECURSIVE LinkParents(_, _, _)
LinkParents(acc, vp, rid) ==
    IF vp = << >> THEN acc
    ELSE LinkParents([cm |-> MapAppend(acc.cm, Head(vp), rid),
                      pm |-> MapAppend(acc.pm, rid, Head(vp))],
                     Tail(vp), rid)

\* body of "for room_id, room in rooms.items()" (second loop)
RoomStep(acc, room) ==
    LET vc  == ValidChildren(room)
        cm1 == IF vc # << >> THEN MapSet(acc.cm, room.id, vc) ELSE acc.cm
        pm1 == IF vc # << >> THEN LinkChildren(acc.pm, vc, room.id) ELSE acc.pm
    IN  LinkParents([cm |-> cm1, pm |-> pm1], ValidParents(room), room.id)

\* the loop over rooms.items() in dict order, for the first n rooms
RECURSIVE BuildMaps(_)
BuildMaps(n) ==
    IF n = 0 THEN [cm |-> EmptyMap, pm |-> EmptyMap]
    ELSE RoomStep(BuildMaps(n - 1), rooms[n])

\* for k in m: m[k] = list(set(m[k]))
Dedup(m) == [k \in DOMAIN m |-> SetToList(Range(m[k]))]

\* Mutant: the sort key is not lower-cased
sort_key_raw(rid) ==
    IF rid \in JoinedIds
    THEN (IF RoomOf(rid).display_name # << >> THEN RoomOf(rid).display_name ELSE IdStr(rid))
    ELSE IdStr(rid)

\* def sort_key(rid)
sort_key(rid) ==
    IF rid \in JoinedIds
    THEN Lower(IF RoomOf(rid).display_name # << >> THEN RoomOf(rid).display_name ELSE IdStr(rid))
    ELSE Lower(IdStr(rid))

\* list.sort(key=sort_key): stable, ascending
RECURSIVE InsertSorted(_, _)
InsertSorted(sorted, x) ==
    IF sorted = << >> THEN <<x>>
    ELSE IF StrLess(sort_key(x), sort_key(Head(sorted)))
         THEN <<x>> \o sorted
         ELSE <<Head(sorted)>> \o InsertSorted(Tail(sorted), x)

RECURSIVE SortList(_)
SortList(s) ==
    IF s = << >> THEN << >>
    ELSE InsertSorted(SortList(SubSeq(s, 1, Len(s) - 1)), s[Len(s)])

\* ids of the rooms, in dict order
RoomIdSeq == [i \in DOMAIN rooms |-> rooms[i].id]

HasParent(pm, rid) == rid \in DOMAIN pm /\ pm[rid] # << >>

get_hierarchy ==
    IF client = "none"
    THEN [spaces |-> EmptyMap, children |-> EmptyMap,
          top_level_spaces |-> << >>, orphans |-> << >>]
    ELSE LET maps == BuildMaps(Len(rooms))
             children_map == Dedup(maps.cm)
             parents_map  == Dedup(maps.pm)
             IsTop(rid)    == SpacesMap[rid] /\ ~HasParent(parents_map, rid)
             IsOrphan(rid) == ~SpacesMap[rid] /\ ~HasParent(parents_map, rid)
         IN  [spaces |-> SpacesMap,
              children |-> [k \in DOMAIN children_map |-> SortList(children_map[k])],
              top_level_spaces |-> SortList(SelectSeq(RoomIdSeq, IsTop)),
              orphans |-> SortList(SelectSeq(RoomIdSeq, IsOrphan))]

\* a call of get_hierarchy (RoomListView.refresh_rooms calls it on every sync)
GetHierarchyCall ==
    /\ nCalls < MaxCalls
    /\ hier' = get_hierarchy
    /\ prevHier' = hier
    /\ nCalls' = nCalls + 1
    /\ UNCHANGED <<client, rooms, hashSeed>>
    /\ UNCHANGED nonhier

(***************************************************************************)
(* Room snapshots the hierarchy is computed from                           *)
(***************************************************************************)
RECURSIVE SubsetsUpTo(_, _)
SubsetsUpTo(S, k) ==
    IF k = 0 THEN {{}}
    ELSE LET prev == SubsetsUpTo(S, k - 1)
         IN  prev \cup {T \cup {x} : T \in prev, x \in S}

\* <<room, direction, target>>: room declares target as child ("c") or parent ("p")
PointerSlots(n) == (1..n) \X {"c", "p"} \X (0..n)

Snapshot(n, ptrs, types, named) ==
    [i \in 1..n |->
        [id |-> i,
         room_type |-> types[i],
         display_name |-> DisplayName(i, named[i]),
         children |-> {t \in 0..n : <<i, "c", t>> \in ptrs},
         parents  |-> {t \in 0..n : <<i, "p", t>> \in ptrs}]]

NoCrowd == [waiting |-> 0, woken |-> 0, inside |-> 0]

NoProbe == [pc |-> "none", ahead |-> 0, waited |-> FALSE]

SlotsIdle ==
    /\ crowd = NoCrowd
    /\ probe = NoProbe

\* the profiles.json file does not exist
NoFile == [state |-> "missing"]

NoPrev == [cache |-> EmptyMap, saved |-> TRUE]

ProfileIdle ==
    /\ profile_cache = EmptyMap
    /\ profile_file = NoFile
    /\ profile_requests = EmptyMap
    /\ ptasks = EmptyMap
    /\ pcallers = EmptyMap
    /\ save_ok = TRUE
    /\ prev_run = NoPrev

\* the credentials table has no row
NoRow == [none |-> TRUE]

\* no AsyncClient object
NoIds == [obj |-> 0, user |-> << >>, device_id |-> << >>, access_token |-> "None"]

NoResponse == [user_id |-> << >>, access_token |-> "None", device_id |-> << >>]

IdleOp == [name |-> "none", pc |-> "idle", ret |-> "none", failed |-> "none",
           resp |-> NoResponse, before |-> NoRow]

SessionIdle ==
    /\ homeserver = "None"
    /\ creds = NoRow
    /\ nio = NoIds
    /\ objs = << >>
    /\ op = IdleOp

LoopIds == 1..MaxLoops

\* no _sync_loop task with this id
FreeLoop == [pc |-> "free", on |-> 0, token |-> "None", cancel |-> FALSE, why |-> "none"]

IdleStopper == [pc |-> "idle", task |-> 0, ret |-> "none"]

SyncIdle ==
    /\ on_sync = "None"
    /\ sync_task = 0
    /\ loops = [l \in LoopIds |-> FreeLoop]
    /\ served = 0
    /\ calls = << >>
    /\ stopper = IdleStopper

\* no join_room / leave_room call
NoCall == [name |-> "none", pc |-> "idle", room |-> "none", got |-> "none", ret |-> "none"]

MembershipIdle ==
    /\ joined = {}
    /\ mcalls = [c \in 1..MaxCallers |-> NoCall]

TxIds == {"tx1", "tx2"}

\* no transaction with this id
NoTx == [state |-> "None", key_sent |-> FALSE, key_rcvd |-> FALSE, mac_sent |-> FALSE,
         mac_rcvd |-> FALSE, done_sent |-> FALSE, done_rcvd |-> FALSE, early_mac |-> FALSE]

\* no VerificationDialog
NoDialog == [open |-> FALSE, tx |-> "none", status |-> "none", emojis |-> FALSE,
             confirm |-> FALSE]

VerificationIdle ==
    /\ vtable = [t \in TxIds |-> NoTx]
    /\ dialog = NoDialog

\* no save_credentials call yet, or cleared since
NoSave == [none |-> TRUE]

\* no load_credentials / has_credentials call yet
NoLoad == [call |-> "none"]

StorageIdle ==
    /\ cred_table = {}
    /\ saved = NoSave
    /\ loaded = NoLoad

RoundsIdle ==
    /\ cb_raised = FALSE
    /\ keys_due = FALSE

MaxFetches == 2

\* no pagination token
NoToken == [room |-> "None", pos |-> 0]

\* no _fetch_history task
NoFetch == [pc |-> "free", room |-> "None", hi |-> 0]

\* the load-more button at rest, no _load_more_history task
NoMore == [sensitive |-> TRUE, pc |-> "idle", room |-> "None", start |-> NoToken,
           chunk |-> << >>]

\* self.load_more_row as a row of the message list
LoadMoreRow == [room |-> "more", k |-> 0]

ViewIdle ==
    /\ current_room_id = "None"
    /\ message_list = <<LoadMoreRow>>
    /\ shown_event_ids = {}
    /\ prev_batch = NoToken
    /\ fetches = [f \in 1..MaxFetches |-> NoFetch]
    /\ more = NoMore
    /\ timeline = [r \in {} |-> 0]
    /\ delivered = [r \in {} |-> 0]

\* the application object after __init__: not activated, no task, no window
NewApp ==
    [pc |-> "constructed", task |-> "none", holds |-> 0,
     main_window |-> FALSE, login_window |-> FALSE, sync_tasks |-> 0]

StartupIdle == app = NewApp

MediaIdle ==
    /\ mgr = "media"
    /\ path_cache = {}
    /\ failure_cache = {}
    /\ disk = {}
    /\ active_downloads = EmptyMap
    /\ tasks = EmptyMap
    /\ sem_value = 0
    /\ callers = EmptyMap

InitHierarchy ==
    /\ client \in {"none", "ready"}
    /\ hashSeed \in 0..MaxSeed
    /\ \E n \in 0..MaxRooms :
         /\ (client = "none") => (n = 0)
         /\ \E ptrs \in SubsetsUpTo(PointerSlots(n), MaxPointers) :
            \E types \in [1..n -> RoomTypes] :
            \E named \in [1..n -> BOOLEAN] :
               rooms = Snapshot(n, ptrs, types, named)
    /\ hier = NoResult
    /\ prevHier = NoResult
    /\ nCalls = 0
    /\ MediaIdle
    /\ SlotsIdle
    /\ ProfileIdle
    /\ SessionIdle
    /\ SyncIdle
    /\ MembershipIdle
    /\ VerificationIdle
    /\ StorageIdle
    /\ RoundsIdle
    /\ ViewIdle
    /\ StartupIdle

NextHierarchy == GetHierarchyCall

SpecHierarchy == InitHierarchy /\ [][NextHierarchy]_vars

(***************************************************************************)
(* MediaManager.get_media / AvatarManager.get_avatar                       *)
(***************************************************************************)
\* asyncio.Semaphore(10) of MediaManager, asyncio.Semaphore(30) of AvatarManager
MediaSemaphoreLimit == 10
AvatarSemaphoreLimit == 30

SemaphoreLimit == IF mgr = "avatar" THEN AvatarSemaphoreLimit ELSE MediaSemaphoreLimit

\* content references: well formed, without "/" after the scheme, not an mxc url
Refs == {"mxc://s/m", "mxc://m", "http://s/m"}

\* mxc_url and mxc_url.startswith("mxc://")
StartsWithMxc(r) == r \in {"mxc://s/m", "mxc://m"}

\* "/" in mxc_url[6:]
HasSlash(r) == r = "mxc://s/m"

\* requested sizes, as they appear in the cache key: f"{width}_{height}" for
\* media, f"{size}" for avatars
Sizes == IF mgr = "avatar" THEN {"32", "64"} ELSE {"None_None", "400_300"}

\* cache_key = f"{mxc_url}_{size}"; the cache path is the md5 of the same string
CacheKey(r, sz) == <<r, sz>>

Keys == Refs \X Sizes

KeyRef(k) == k[1]

KeySize(k) == k[2]

\* outcome of one HTTP request followed by the image processing
Outcomes == {"ok200", "bad200", "empty200", "status404", "status500", "exception"}

Callers == 1..MaxCallers

TaskIds == 1..MaxTasks

NoKey == <<"", "">>

\* reqs: the requests the download has issued so far, in order
FreeTask == [pc |-> "free", key |-> NoKey, res |-> "none", why |-> "none", reqs |-> << >>]

IdleCaller == [st |-> "idle", ref |-> "", size |-> "", task |-> 0, res |-> "none", via |-> "none"]

\* a call that returned without awaiting a download task
Returned(r, sz, res, via) ==
    [st |-> "done", ref |-> r, size |-> sz, task |-> 0, res |-> res, via |-> via]

\* a call suspended in "await task"
Awaiting(r, sz, t) ==
    [st |-> "await", ref |-> r, size |-> sz, task |-> t, res |-> "none", via |-> "task"]

\* Mutant: the in-memory path cache is never consulted
PathCachedNever(k) == FALSE

\* if cache_key in self._path_cache
PathCached(k) == k \in path_cache

\* Mutant: the negative cache is never consulted
NegativeCachedNever(r) == FALSE

\* if mxc_url in self._failure_cache
NegativeCached(r) == r \in failure_cache

\* if cache_path.exists()
OnDisk(k) == k \in disk

\* Mutant: a running download for the same cache path is not looked up
AlreadyDownloadingNever(k) == FALSE

\* if cache_path in self._active_downloads
AlreadyDownloading(k) == k \in DOMAIN active_downloads

\* self._active_downloads.pop(cache_path, None)
PopDownload(ad, k) == [x \in DOMAIN ad \ {k} |-> ad[x]]

\* task objects that nothing refers to any more are dropped
Collect(ts, cs, ad) ==
    [t \in DOMAIN ts |->
        IF /\ ts[t].pc = "done"
           /\ ~\E c \in DOMAIN cs : cs[c].st = "await" /\ cs[c].task = t
           /\ ~\E k \in DOMAIN ad : ad[k] = t
        THEN FreeTask ELSE ts[t]]

FreeTaskIds == {t \in TaskIds : tasks[t].pc = "free"}

\* get_media / get_avatar up to its first suspension
GetCall(c, r, sz) ==
    LET k == CacheKey(r, sz) IN
    /\ callers[c].st = "idle"
    /\ IF ~StartsWithMxc(r)
       THEN /\ callers' = [callers EXCEPT ![c] = Returned(r, sz, "none", "invalid")]
            /\ UNCHANGED <<path_cache, active_downloads, tasks>>
       ELSE IF PathCached(k)
       THEN /\ callers' = [callers EXCEPT ![c] = Returned(r, sz, "path", "memory")]
            /\ UNCHANGED <<path_cache, active_downloads, tasks>>
       ELSE IF NegativeCached(r)
       THEN /\ callers' = [callers EXCEPT ![c] = Returned(r, sz, "none", "negative")]
            /\ UNCHANGED <<path_cache, active_downloads, tasks>>
       ELSE IF OnDisk(k)
       THEN /\ path_cache' = path_cache \cup {k}
            /\ callers' = [callers EXCEPT ![c] = Returned(r, sz, "path", "disk")]
            /\ UNCHANGED <<active_downloads, tasks>>
       ELSE IF AlreadyDownloading(k)
       THEN /\ callers' = [callers EXCEPT ![c] = Awaiting(r, sz, active_downloads[k])]
            /\ UNCHANGED <<path_cache, active_downloads, tasks>>
       ELSE /\ FreeTaskIds # {}
            /\ LET t == CHOOSE x \in FreeTaskIds : \A y \in FreeTaskIds : x <= y IN
               /\ tasks' = [tasks EXCEPT ![t] = [pc |-> "created", key |-> k,
                                                 res |-> "none", why |-> "none",
                                                 reqs |-> << >>]]
               /\ active_downloads' = MapSet(active_downloads, k, t)
               /\ callers' = [callers EXCEPT ![c] = Awaiting(r, sz, t)]
            /\ UNCHANGED path_cache
    /\ UNCHANGED <<mgr, failure_cache, disk, sem_value>>
    /\ UNCHANGED nonmedia

\* the first request of a download: media asks for a thumbnail when width and
\* height are given, avatars always start with the thumbnail
FirstRequest(k) ==
    IF mgr = "avatar" THEN "thumbnail"
    ELSE IF KeySize(k) = "400_300" THEN "thumbnail" ELSE "full"

\* the end of _download: return value, finally-clause, release of the semaphore
TaskEnds(t, res, why, fc, pc2, dk, popped, released) ==
    LET ad2 == IF popped THEN PopDownload(active_downloads, tasks[t].key)
               ELSE active_downloads
        ts2 == [tasks EXCEPT ![t] = [pc |-> "done", key |-> tasks[t].key,
                                     res |-> res, why |-> why,
                                     reqs |-> tasks[t].reqs]]
    IN  /\ active_downloads' = ad2
        /\ tasks' = Collect(ts2, callers, ad2)
        /\ failure_cache' = fc
        /\ path_cache' = pc2
        /\ disk' = dk
        /\ sem_value' = IF released THEN sem_value + 1 ELSE sem_value

\* _download from its start (or from the semaphore queue) to the first request
EnterDownload(t) ==
    /\ \/ tasks[t].pc = "created"
       \/ tasks[t].pc = "waitsem" /\ sem_value > 0
    /\ IF sem_value = 0
       THEN /\ tasks' = [tasks EXCEPT ![t].pc = "waitsem"]
            /\ UNCHANGED <<active_downloads, failure_cache, path_cache, disk, sem_value>>
       ELSE IF ~HasSlash(KeyRef(tasks[t].key))
       THEN \* acquired and released within this step
            /\ TaskEnds(t, "none", "malformed", failure_cache, path_cache, disk, TRUE, FALSE)
       ELSE /\ tasks' = [tasks EXCEPT ![t].pc = FirstRequest(tasks[t].key),
                                      ![t].reqs = <<FirstRequest(tasks[t].key)>>]
            /\ sem_value' = sem_value - 1
            /\ UNCHANGED <<active_downloads, failure_cache, path_cache, disk>>
    /\ UNCHANGED <<mgr, callers>>
    /\ UNCHANGED nonmedia

\* image saved to the cache path, path cache filled, path returned
DownloadSucceeds(t) ==
    TaskEnds(t, "path", "ok", failure_cache,
             path_cache \cup {tasks[t].key}, disk \cup {tasks[t].key}, TRUE, TRUE)

\* "return None" without touching the negative cache
DownloadGivesUp(t, why) ==
    TaskEnds(t, "none", why, failure_cache, path_cache, disk, TRUE, TRUE)

\* self._failure_cache.add(mxc_url); return None
DownloadMarksFailed(t, why) ==
    TaskEnds(t, "none", why, failure_cache \cup {KeyRef(tasks[t].key)},
             path_cache, disk, TRUE, TRUE)

\* MediaManager: the single request of _download and what follows it
MediaResponse(t, o) ==
    /\ mgr = "media"
    /\ tasks[t].pc \in {"thumbnail", "full"}
    /\ IF o = "ok200" THEN DownloadSucceeds(t)
       ELSE IF o \in {"bad200", "empty200"} THEN DownloadGivesUp(t, "processing")
       ELSE IF o \in {"status404", "status500"} THEN DownloadMarksFailed(t, "requests_failed")
       ELSE DownloadGivesUp(t, "requests_failed")
    /\ UNCHANGED <<mgr, callers>>
    /\ UNCHANGED nonmedia

\* AvatarManager: one round of "for label, http_url in [thumbnail, full]"
AvatarResponse(t, o) ==
    /\ mgr = "avatar"
    /\ tasks[t].pc \in {"thumbnail", "full"}
    /\ IF o = "ok200" THEN DownloadSucceeds(t)
       ELSE IF o = "bad200" THEN DownloadGivesUp(t, "processing")
       ELSE IF o = "empty200" THEN DownloadMarksFailed(t, "empty_body")
       ELSE IF tasks[t].pc = "thumbnail"
       THEN \* continue with the full download
            /\ tasks' = [tasks EXCEPT ![t].pc = "full",
                                      ![t].reqs = Append(tasks[t].reqs, "full")]
            /\ UNCHANGED <<active_downloads, failure_cache, path_cache, disk, sem_value>>
       ELSE IF o = "status404" THEN DownloadMarksFailed(t, "requests_failed")
       ELSE DownloadGivesUp(t, "requests_failed")
    /\ UNCHANGED <<mgr, callers>>
    /\ UNCHANGED nonmedia

\* "return await task" once the task is done
Resume(c) ==
    /\ callers[c].st = "await"
    /\ tasks[callers[c].task].pc = "done"
    /\ LET cs2 == [callers EXCEPT ![c] =
                     Returned(callers[c].ref, callers[c].size,
                              tasks[callers[c].task].res, "task")]
       IN  /\ callers' = cs2
           /\ tasks' = Collect(tasks, cs2, active_downloads)
    /\ UNCHANGED <<mgr, path_cache, failure_cache, disk, active_downloads, sem_value>>
    /\ UNCHANGED nonmedia

\* the code that awaited get_media / get_avatar goes on with the result
Consume(c) ==
    /\ callers[c].st = "done"
    /\ callers' = [callers EXCEPT ![c] = IdleCaller]
    /\ UNCHANGED <<mgr, path_cache, failure_cache, disk, active_downloads, tasks, sem_value>>
    /\ UNCHANGED nonmedia

\* The task that awaits get_media / get_avatar is cancelled while suspended in
\* "await task": asyncio cancels the awaited download task with it.  A task
\* that has not run yet ends without entering its try block; a task suspended
\* inside the try block runs its finally clause and leaves the semaphore.
CancelCaller(c) ==
    /\ callers[c].st = "await"
    /\ LET t   == callers[c].task
           cs2 == [callers EXCEPT ![c] =
                     Returned(callers[c].ref, callers[c].size, "cancelled", "task")]
       IN  IF tasks[t].pc = "done"
           THEN /\ callers' = cs2
                /\ tasks' = Collect(tasks, cs2, active_downloads)
                /\ UNCHANGED <<active_downloads, sem_value>>
           ELSE LET inTry == tasks[t].pc # "created"
                    ad2 == IF inTry THEN PopDownload(active_downloads, tasks[t].key)
                           ELSE active_downloads
                    ts2 == [tasks EXCEPT ![t] = [pc |-> "done", key |-> tasks[t].key,
                                                 res |-> "cancelled", why |-> "cancelled",
                                                 reqs |-> tasks[t].reqs]]
                IN  /\ callers' = cs2
                    /\ active_downloads' = ad2
                    /\ tasks' = Collect(ts2, cs2, ad2)
                    /\ sem_value' = IF tasks[t].pc \in {"thumbnail", "full"}
                                    THEN sem_value + 1 ELSE sem_value
    /\ UNCHANGED <<mgr, path_cache, failure_cache, disk>>
    /\ UNCHANGED nonmedia

\* the process ends and a new manager is constructed over the same cache_dir
Restart ==
    /\ path_cache' = {}
    /\ failure_cache' = {}
    /\ active_downloads' = EmptyMap
    /\ tasks' = [t \in TaskIds |-> FreeTask]
    /\ sem_value' = SemaphoreLimit
    /\ callers' = [c \in Callers |-> IdleCaller]
    /\ \/ path_cache # {}
       \/ failure_cache # {}
       \/ \E t \in TaskIds : tasks[t].pc # "free"
       \/ \E c \in Callers : callers[c].st # "idle"
    /\ UNCHANGED <<mgr, disk>>
    /\ UNCHANGED nonmedia

HierarchyIdle ==
    /\ client = "none"
    /\ rooms = << >>
    /\ hashSeed = 0
    /\ hier = NoResult
    /\ prevHier = NoResult
    /\ nCalls = 0

InitMedia ==
    /\ mgr \in {"media", "avatar"}
    /\ path_cache = {}
    /\ failure_cache = {}
    /\ disk = {}
    /\ active_downloads = EmptyMap
    /\ tasks = [t \in TaskIds |-> FreeTask]
    /\ sem_value = SemaphoreLimit
    /\ callers = [c \in Callers |-> IdleCaller]
    /\ HierarchyIdle
    /\ SlotsIdle
    /\ ProfileIdle
    /\ SessionIdle
    /\ SyncIdle
    /\ MembershipIdle
    /\ VerificationIdle
    /\ StorageIdle
    /\ RoundsIdle
    /\ ViewIdle
    /\ StartupIdle

NextMedia ==
    \/ \E c \in Callers : \E r \in Refs : \E sz \in Sizes : GetCall(c, r, sz)
    \/ \E t \in TaskIds : EnterDownload(t)
    \/ \E t \in TaskIds : \E o \in Outcomes : MediaResponse(t, o)
    \/ \E t \in TaskIds : \E o \in Outcomes : AvatarResponse(t, o)
    \/ \E c \in Callers : Resume(c)
    \/ \E c \in Callers : Consume(c)
    \/ \E c \in Callers : CancelCaller(c)
    \/ Restart

SpecMedia == InitMedia /\ [][NextMedia]_vars

\* AvatarManager.clear_cache(): every *.png of the cache directory is deleted
ClearCache ==
    /\ mgr = "avatar"
    /\ disk # {}
    /\ disk' = {}
    /\ UNCHANGED <<mgr, path_cache, failure_cache, active_downloads, tasks, sem_value, callers>>
    /\ UNCHANGED nonmedia

\* the avatar manager with its cache cleared now and then
InitAvatar == InitMedia /\ mgr = "avatar"

NextAvatar ==
    \/ \E c \in Callers : \E r \in Refs : \E sz \in Sizes : GetCall(c, r, sz)
    \/ \E t \in TaskIds : EnterDownload(t)
    \/ \E t \in TaskIds : \E o \in Outcomes : AvatarResponse(t, o)
    \/ \E c \in Callers : Resume(c)
    \/ \E c \in Callers : Consume(c)
    \/ \E c \in Callers : CancelCaller(c)
    \/ ClearCache

SpecAvatar == InitAvatar /\ [][NextAvatar]_vars

(***************************************************************************)
(* The download semaphore under load: more _download tasks than slots.     *)
(* Downloads of distinct cache keys meet only in                           *)
(* self._download_semaphore, so all but one of them are counted per stage: *)
(*   waiting  queued in Semaphore.acquire()                                *)
(*   woken    handed a slot by release(), not resumed yet                  *)
(*   inside   inside the "async with self._download_semaphore" block       *)
(* The semaphore is asyncio.Semaphore: a FIFO queue of waiters, release()  *)
(* hands the slot to the first waiter that has not been woken.             *)
(***************************************************************************)
mrest == <<path_cache, failure_cache, disk, active_downloads, tasks, callers>>

NumTasks ==
    crowd.waiting + crowd.woken + crowd.inside
        + (IF probe.pc = "none" THEN 0 ELSE 1)

\* Semaphore.locked(): no free slot, or a waiter is still in the queue
Locked ==
    \/ sem_value = 0
    \/ crowd.waiting > 0
    \/ crowd.woken > 0
    \/ probe.pc \in {"waitsem", "woken"}

\* Mutant: leaving the block does not give the slot back
ReleaseLeak(v) == v

\* leaving "async with self._download_semaphore": release(), self._value += 1
Release(v) == v + 1

\* Semaphore._wake_up_next() at counter value v: the first waiter that has not
\* been woken takes a slot
WakeUpNext(v, cr, pr) ==
    IF pr.pc = "waitsem" /\ pr.ahead = 0
    THEN [v |-> v - 1, crowd |-> cr, probe |-> [pr EXCEPT !.pc = "woken"]]
    ELSE IF cr.waiting > 0
    THEN [v |-> v - 1,
          crowd |-> [cr EXCEPT !.waiting = @ - 1, !.woken = @ + 1],
          probe |-> IF pr.pc = "waitsem" THEN [pr EXCEPT !.ahead = @ - 1] ELSE pr]
    ELSE [v |-> v, crowd |-> cr, probe |-> pr]

\* end of acquire() of a woken waiter: if self._value > 0: self._wake_up_next()
WakeIfFree(v, cr, pr) ==
    IF v > 0 THEN WakeUpNext(v, cr, pr) ELSE [v |-> v, crowd |-> cr, probe |-> pr]

SlotsBecome(w) ==
    /\ sem_value' = w.v
    /\ crowd' = w.crowd
    /\ probe' = w.probe

\* first step of the _download task of a cache key that was not cached and
\* not in flight: "async with self._download_semaphore"
CrowdEnter ==
    /\ NumTasks < SemaphoreLimit + MaxExtra
    /\ IF Locked
       THEN /\ crowd' = [crowd EXCEPT !.waiting = @ + 1]
            /\ UNCHANGED sem_value
       ELSE /\ crowd' = [crowd EXCEPT !.inside = @ + 1]
            /\ sem_value' = sem_value - 1
    /\ UNCHANGED <<mgr, probe, mrest>>
    /\ UNCHANGED nonslots

\* a woken download resumes and enters the block
CrowdResume ==
    /\ crowd.woken > 0
    /\ SlotsBecome(WakeIfFree(sem_value,
                              [crowd EXCEPT !.woken = @ - 1, !.inside = @ + 1], probe))
    /\ UNCHANGED <<mgr, mrest>>
    /\ UNCHANGED nonslots

\* a download leaves the block: return of a path, return None, an exception
\* or a cancellation inside the block
CrowdLeave ==
    /\ crowd.inside > 0
    /\ SlotsBecome(WakeUpNext(Release(sem_value),
                              [crowd EXCEPT !.inside = @ - 1], probe))
    /\ UNCHANGED <<mgr, mrest>>
    /\ UNCHANGED nonslots

\* a download is cancelled while it is suspended in acquire()
CrowdCancel(stage) ==
    /\ \/ /\ stage = "waiting"
          /\ crowd.waiting > 0
          /\ crowd' = [crowd EXCEPT !.waiting = @ - 1]
          /\ \E a \in {probe.ahead, probe.ahead - 1} :
                /\ a >= 0
                /\ a <= crowd.waiting - 1
                /\ (probe.pc # "waitsem") => (a = probe.ahead)
                /\ probe' = [probe EXCEPT !.ahead = a]
          /\ UNCHANGED sem_value
       \/ /\ stage = "woken"
          /\ crowd.woken > 0
          /\ SlotsBecome(WakeUpNext(Release(sem_value),
                                    [crowd EXCEPT !.woken = @ - 1], probe))
    /\ UNCHANGED <<mgr, mrest>>
    /\ UNCHANGED nonslots

ProbeEnter ==
    /\ probe.pc = "none"
    /\ NumTasks < SemaphoreLimit + MaxExtra
    /\ IF Locked
       THEN /\ probe' = [pc |-> "waitsem", ahead |-> crowd.waiting, waited |-> TRUE]
            /\ UNCHANGED sem_value
       ELSE /\ probe' = [probe EXCEPT !.pc = "inside"]
            /\ sem_value' = sem_value - 1
    /\ UNCHANGED <<mgr, crowd, mrest>>
    /\ UNCHANGED nonslots

ProbeResume ==
    /\ probe.pc = "woken"
    /\ SlotsBecome(WakeIfFree(sem_value, crowd, [probe EXCEPT !.pc = "inside"]))
    /\ UNCHANGED <<mgr, mrest>>
    /\ UNCHANGED nonslots

ProbeLeave ==
    /\ probe.pc = "inside"
    /\ SlotsBecome(WakeUpNext(Release(sem_value), crowd, NoProbe))
    /\ UNCHANGED <<mgr, mrest>>
    /\ UNCHANGED nonslots

InitSlots ==
    /\ mgr \in {"media", "avatar"}
    /\ sem_value = SemaphoreLimit
    /\ path_cache = {}
    /\ failure_cache = {}
    /\ disk = {}
    /\ active_downloads = EmptyMap
    /\ tasks = EmptyMap
    /\ callers = EmptyMap
    /\ SlotsIdle
    /\ HierarchyIdle
    /\ ProfileIdle
    /\ SessionIdle
    /\ SyncIdle
    /\ MembershipIdle
    /\ VerificationIdle
    /\ StorageIdle
    /\ RoundsIdle
    /\ ViewIdle
    /\ StartupIdle

NextSlots ==
    \/ CrowdEnter
    \/ CrowdResume
    \/ CrowdLeave
    \/ \E stage \in {"waiting", "woken"} : CrowdCancel(stage)
    \/ ProbeEnter
    \/ ProbeResume
    \/ ProbeLeave

SpecSlots == InitSlots /\ [][NextSlots]_vars

\* The event loop runs every task that is ready (a woken download resumes),
\* and every request ends within its timeout (a download inside the block
\* leaves it).
SpecSlotsFair ==
    /\ SpecSlots
    /\ WF_vars(CrowdResume)
    /\ WF_vars(ProbeResume)
    /\ WF_vars(CrowdLeave)

(***************************************************************************)
(* MatrixClient.get_user_profile and the persisted profile cache           *)
(***************************************************************************)
Users == {"@a:s", "@b:s"}

\* profile records as the server returns them; "None" is Python's None
Profiles == {[displayname |-> "None", avatar_url |-> "None"],
             [displayname |-> "Al", avatar_url |-> "mxc://s/a"]}

\* the empty dict
EmptyRecord == [empty |-> TRUE]

\* an exception that leaves the coroutine
Raised == [raised |-> TRUE]

\* what "await self.client.get_profile(user_id)" ends with
ProfileResponses == {"ProfileGetResponse", "ProfileGetError", "exception"}

\* what happens in _save_profile_cache: the file is written; mkdir or open
\* raises and the file is as before; the write raises after open(.., 'w')
\* has truncated the file
SaveOutcomes == {"written", "not_opened", "truncated"}

\* json.dump / json.load of the values of a profile record
JsonValue(v) == IF v = "None" THEN [t |-> "null"] ELSE [t |-> "string", s |-> v]

PyValue(j) == IF j.t = "null" THEN "None" ELSE j.s

JsonDump(cache) ==
    [u \in DOMAIN cache |-> [displayname |-> JsonValue(cache[u].displayname),
                             avatar_url  |-> JsonValue(cache[u].avatar_url)]]

JsonLoad(js) ==
    [u \in DOMAIN js |-> [displayname |-> PyValue(js[u].displayname),
                          avatar_url  |-> PyValue(js[u].avatar_url)]]

\* Mutant: a new process starts with an empty profile cache
load_profile_cache_empty(file) == EmptyMap

\* _load_profile_cache: no file or an unreadable file leave the cache empty
load_profile_cache(file) ==
    IF file.state = "written" THEN JsonLoad(file.json) ELSE EmptyMap

\* _save_profile_cache: the whole cache is written; a failure is only logged
save_profile_cache(file, cache, outcome) ==
    IF outcome = "written" THEN [state |-> "written", json |-> JsonDump(cache)]
    ELSE IF outcome = "truncated" THEN [state |-> "truncated"]
    ELSE file

PTaskIds == 1..MaxTasks

PCallers == 1..MaxCallers

FreeFetch == [pc |-> "free", user |-> "", res |-> EmptyRecord]

IdleProfileCaller == [st |-> "idle", user |-> "", task |-> 0, res |-> EmptyRecord, via |-> "none"]

ProfileReturned(u, res, via) ==
    [st |-> "done", user |-> u, task |-> 0, res |-> res, via |-> via]

ProfileAwaiting(u, t, via) ==
    [st |-> "await", user |-> u, task |-> t, res |-> EmptyRecord, via |-> via]

\* Mutant: a fetch in flight for the same user id is not looked up
InProgressNever(u) == FALSE

\* if user_id in self._profile_requests
InProgress(u) == u \in DOMAIN profile_requests

\* task objects that nothing refers to any more are dropped
CollectFetches(ts, cs, rq) ==
    [t \in DOMAIN ts |->
        IF /\ ts[t].pc = "done"
           /\ ~\E c \in DOMAIN cs : cs[c].st = "await" /\ cs[c].task = t
           /\ ~\E u \in DOMAIN rq : rq[u] = t
        THEN FreeFetch ELSE ts[t]]

FreeFetchIds == {t \in PTaskIds : ptasks[t].pc = "free"}

\* get_user_profile up to its first suspension
ProfileCall(c, u) ==
    /\ pcallers[c].st = "idle"
    /\ IF client = "none"
       THEN /\ pcallers' = [pcallers EXCEPT ![c] = ProfileReturned(u, EmptyRecord, "no_client")]
            /\ UNCHANGED <<ptasks, profile_requests>>
       ELSE IF u \in DOMAIN profile_cache
       THEN /\ pcallers' = [pcallers EXCEPT ![c] = ProfileReturned(u, profile_cache[u], "cache")]
            /\ UNCHANGED <<ptasks, profile_requests>>
       ELSE IF InProgress(u)
       THEN /\ pcallers' = [pcallers EXCEPT ![c] = ProfileAwaiting(u, profile_requests[u], "join")]
            /\ UNCHANGED <<ptasks, profile_requests>>
       ELSE /\ FreeFetchIds # {}
            /\ LET t == CHOOSE x \in FreeFetchIds : \A y \in FreeFetchIds : x <= y IN
               /\ ptasks' = [ptasks EXCEPT ![t] = [pc |-> "created", user |-> u,
                                                   res |-> EmptyRecord]]
               /\ profile_requests' = MapSet(profile_requests, u, t)
               /\ pcallers' = [pcallers EXCEPT ![c] = ProfileAwaiting(u, t, "fetch")]
    /\ UNCHANGED <<client, profile_cache, profile_file, save_ok, prev_run>>
    /\ UNCHANGED nonprofile

\* the end of _fetch: finally-clause and return value
FetchEnds(t, res, cache2, file2, ok2) ==
    LET rq2 == PopDownload(profile_requests, ptasks[t].user)
        ts2 == [ptasks EXCEPT ![t] = [pc |-> "done", user |-> ptasks[t].user, res |-> res]]
    IN  /\ profile_requests' = rq2
        /\ ptasks' = CollectFetches(ts2, pcallers, rq2)
        /\ profile_cache' = cache2
        /\ profile_file' = file2
        /\ save_ok' = ok2

\* Mutant: the exception is not caught
FetchFailedRaises(o) == Raised

\* "except Exception" of _fetch, or a response that is not a
\* ProfileGetResponse: the finally clause runs and {} is returned
FetchFailed(o) == EmptyRecord

\* first step of _fetch: self.client.get_profile(user_id) is called; without
\* a client the attribute access raises
FetchStep(t) ==
    /\ ptasks[t].pc = "created"
    /\ IF client = "none"
       THEN FetchEnds(t, FetchFailed("exception"), profile_cache, profile_file, save_ok)
       ELSE /\ ptasks' = [ptasks EXCEPT ![t].pc = "request"]
            /\ UNCHANGED <<profile_requests, profile_cache, profile_file, save_ok>>
    /\ UNCHANGED <<client, pcallers, prev_run>>
    /\ UNCHANGED nonprofile

\* the request ends: o is its outcome, p the profile of a ProfileGetResponse,
\* sv what happens in _save_profile_cache
FetchResponse(t, o, p, sv) ==
    /\ ptasks[t].pc = "request"
    /\ IF o = "ProfileGetResponse"
       THEN LET cache2 == MapSet(profile_cache, ptasks[t].user, p) IN
            FetchEnds(t, p, cache2, save_profile_cache(profile_file, cache2, sv),
                      save_ok /\ sv = "written")
       ELSE FetchEnds(t, FetchFailed(o), profile_cache, profile_file, save_ok)
    /\ UNCHANGED <<client, pcallers, prev_run>>
    /\ UNCHANGED nonprofile

\* "return await task" / "return await self._profile_requests[user_id]"
\* inside try / except Exception
ProfileResume(c) ==
    /\ pcallers[c].st = "await"
    /\ ptasks[pcallers[c].task].pc = "done"
    /\ LET r   == ptasks[pcallers[c].task].res
           cs2 == [pcallers EXCEPT ![c] =
                     ProfileReturned(pcallers[c].user,
                                     IF pcallers[c].via = "join" /\ r = Raised
                                     THEN EmptyRecord ELSE r,
                                     pcallers[c].via)]
       IN  /\ pcallers' = cs2
           /\ ptasks' = CollectFetches(ptasks, cs2, profile_requests)
    /\ UNCHANGED <<client, profile_cache, profile_file, profile_requests, save_ok, prev_run>>
    /\ UNCHANGED nonprofile

\* the code that awaited get_user_profile goes on with the result
ProfileConsume(c) ==
    /\ pcallers[c].st = "done"
    /\ pcallers' = [pcallers EXCEPT ![c] = IdleProfileCaller]
    /\ UNCHANGED <<client, profile_cache, profile_file, profile_requests, ptasks, save_ok, prev_run>>
    /\ UNCHANGED nonprofile

\* login / restore_session assign self.client
ClientReady ==
    /\ client = "none"
    /\ client' = "ready"
    /\ UNCHANGED pvars
    /\ UNCHANGED nonprofile

\* logout / close set self.client = None
ClientDropped ==
    /\ client = "ready"
    /\ client' = "none"
    /\ UNCHANGED pvars
    /\ UNCHANGED nonprofile

\* the process ends; a new MatrixClient is constructed and loads the file
ProfileRestart ==
    /\ client' = "none"
    /\ profile_cache' = load_profile_cache(profile_file)
    /\ profile_requests' = EmptyMap
    /\ ptasks' = [t \in PTaskIds |-> FreeFetch]
    /\ pcallers' = [c \in PCallers |-> IdleProfileCaller]
    /\ prev_run' = [cache |-> profile_cache, saved |-> save_ok]
    /\ save_ok' = TRUE
    /\ UNCHANGED profile_file
    /\ UNCHANGED nonprofile

InitProfile ==
    /\ client = "none"
    /\ rooms = << >>
    /\ hashSeed = 0
    /\ hier = NoResult
    /\ prevHier = NoResult
    /\ nCalls = 0
    /\ profile_file = NoFile
    /\ profile_cache = load_profile_cache(profile_file)
    /\ profile_requests = EmptyMap
    /\ ptasks = [t \in PTaskIds |-> FreeFetch]
    /\ pcallers = [c \in PCallers |-> IdleProfileCaller]
    /\ save_ok = TRUE
    /\ prev_run = NoPrev
    /\ MediaIdle
    /\ SlotsIdle
    /\ SessionIdle
    /\ SyncIdle
    /\ MembershipIdle
    /\ VerificationIdle
    /\ StorageIdle
    /\ RoundsIdle
    /\ ViewIdle
    /\ StartupIdle

NextProfile ==
    \/ \E c \in PCallers : \E u \in Users : ProfileCall(c, u)
    \/ \E t \in PTaskIds : FetchStep(t)
    \/ \E t \in PTaskIds : \E o \in ProfileResponses : \E p \in Profiles :
          \E sv \in SaveOutcomes : FetchResponse(t, o, p, sv)
    \/ \E c \in PCallers : ProfileResume(c)
    \/ \E c \in PCallers : ProfileConsume(c)
    \/ ClientReady
    \/ ClientDropped
    \/ ProfileRestart

SpecProfile == InitProfile /\ [][NextProfile]_vars

(***************************************************************************)
(* MatrixClient.login / restore_session / logout and CredentialStorage     *)
(* One of these calls runs at a time: restore_session at start-up, login   *)
(* from the login window, logout from the main window.                     *)
(* Identifiers are tuples of code points: 64 "@", 117 "u", 68 "D",         *)
(* 32 space, 10 newline.                                                   *)
(***************************************************************************)
Homeservers == {"https://hs"}

Username == <<117>>

\* user id and device id as found in the credentials table
StoredUserIds == {<<64, 117>>, <<32, 64, 117>>, <<64, 117, 10>>}

StoredDeviceIds == {<<68>>, <<68, 32>>}

\* access tokens as found in the credentials table
StoredTokens == {"t0", "tx"}

\* the access tokens the server has revoked
Revoked == {"tx"}

\* the LoginResponse of the server
LoginResponses ==
    {[user_id |-> <<64, 117>>, access_token |-> tk, device_id |-> <<68>>] :
        tk \in {"t1", "t2"}}

\* what "await self.client.login(..)" ends with
LoginOutcomes == {"LoginResponse", "LoginError", "raises"}

\* what "await self.client.logout()" ends with
LogoutOutcomes == {"LogoutResponse", "LogoutError", "raises"}

\* what a key upload / key query ends with
KeysOutcomes == {"ok", "raises"}

\* what "await self.client.keys_query()" ends with: a response, an error
\* response, an exception; a revoked token gets no response
QueryOutcomes == {"KeysQueryResponse", "KeysQueryError", "raises"}

\* what the INSERT OR REPLACE and commit of save_credentials end with
StoreOutcomes == {"committed", "raises"}

Row(hs, r) ==
    [homeserver |-> hs, user_id |-> r.user_id,
     access_token |-> r.access_token, device_id |-> r.device_id]

\* CredentialStorage.save_credentials: the single row is replaced
save_credentials(row, hs, r, outcome) ==
    IF outcome = "committed" THEN Row(hs, r) ELSE row

\* CredentialStorage.load_credentials: the row as a dict, or None
load_credentials(row) == row

\* CredentialStorage.has_credentials
has_credentials(row) == load_credentials(row) # NoRow

\* CredentialStorage.clear_credentials
clear_credentials(row) == NoRow

\* the call has returned ret
Done(name, ret, failed, resp, before) ==
    [name |-> name, pc |-> "done", ret |-> ret, failed |-> failed,
     resp |-> resp, before |-> before]

\* Mutant: the exception leaves login
LoginExceptRaises(step) == "raised"

\* "except Exception as e: ... return False" of login
LoginExcept(step) == "False"

\* login up to "await self.client.login(..)"; hs is the homeserver the caller
\* has assigned to self.homeserver before the call, "None" if it assigned none
LoginStart(hs) ==
    /\ op.pc = "idle"
    /\ LET h == IF hs = "None" THEN homeserver ELSE hs IN
       /\ homeserver' = h
       /\ IF h = "None"
          THEN /\ op' = Done("login", "False", "no_homeserver", NoResponse, creds)
               /\ UNCHANGED <<client, nio, objs>>
          ELSE /\ Len(objs) < MaxClients
               /\ client' = "ready"
               /\ objs' = Append(objs, "open")
               /\ nio' = [obj |-> Len(objs) + 1, user |-> Username,
                          device_id |-> << >>, access_token |-> "None"]
               /\ op' = [name |-> "login", pc |-> "request", ret |-> "none",
                         failed |-> "none", resp |-> NoResponse, before |-> creds]
    /\ UNCHANGED creds
    /\ UNCHANGED nonsession

\* the login request ends with outcome o; r is the LoginResponse, sv what
\* happens in save_credentials, up the value of should_upload_keys
LoginResponds(o, r, sv, up) ==
    /\ op.name = "login"
    /\ op.pc = "request"
    /\ IF o = "LoginResponse"
       THEN /\ nio' = [obj |-> nio.obj, user |-> r.user_id, device_id |-> r.device_id,
                       access_token |-> r.access_token]
            /\ creds' = save_credentials(creds, homeserver, r, sv)
            /\ op' = IF sv = "raises"
                     THEN Done("login", LoginExcept("save"), "save_raised", r, op.before)
                     ELSE IF up
                     THEN [op EXCEPT !.pc = "keys", !.resp = r]
                     ELSE Done("login", "True", "none", r, op.before)
       ELSE /\ op' = IF o = "LoginError"
                     THEN Done("login", "False", "rejected", NoResponse, op.before)
                     ELSE Done("login", LoginExcept("login"), "request_raised",
                               NoResponse, op.before)
            /\ UNCHANGED <<nio, creds>>
    /\ UNCHANGED <<client, homeserver, objs>>
    /\ UNCHANGED nonsession

\* "await self.client.keys_upload()" of login ends
KeysUploadEnds(o) ==
    /\ op.name = "login"
    /\ op.pc = "keys"
    /\ op' = IF o = "ok"
             THEN Done("login", "True", "none", op.resp, op.before)
             ELSE Done("login", LoginExcept("keys_upload"), "upload_raised",
                       op.resp, op.before)
    /\ UNCHANGED <<client, homeserver, creds, nio, objs>>
    /\ UNCHANGED nonsession

\* restore_session up to "await self.client.keys_query()"; q is the value of
\* should_query_keys
RestoreCall(q) ==
    /\ op.pc = "idle"
    /\ LET row == load_credentials(creds) IN
       IF row = NoRow
       THEN /\ op' = Done("restore_session", "False", "none", NoResponse, creds)
            /\ UNCHANGED <<client, homeserver, nio, objs>>
       ELSE /\ Len(objs) < MaxClients
            /\ homeserver' = row.homeserver
            /\ client' = "ready"
            /\ objs' = Append(objs, "open")
            /\ nio' = [obj |-> Len(objs) + 1, user |-> row.user_id,
                       device_id |-> row.device_id, access_token |-> row.access_token]
            /\ op' = IF q
                     THEN [name |-> "restore_session", pc |-> "keys", ret |-> "none",
                           failed |-> "none", resp |-> NoResponse, before |-> creds]
                     ELSE Done("restore_session", "True", "none", NoResponse, creds)
    /\ UNCHANGED creds

\* restore_session, called on its own
RestoreStart(q) ==
    /\ RestoreCall(q)
    /\ UNCHANGED nonsession

\* "await self.client.keys_query()" of restore_session ends; nothing catches
\* an exception of it
KeysQueryEnds(o) ==
    /\ op.name = "restore_session"
    /\ op.pc = "keys"
    /\ nio.access_token \in Revoked => o # "KeysQueryResponse"
    /\ op' = IF o = "KeysQueryResponse"
             THEN Done("restore_session", "True", "none", NoResponse, op.before)
             ELSE IF o = "KeysQueryError"
             THEN Done("restore_session", "True", "query_rejected", NoResponse, op.before)
             ELSE Done("restore_session", "raised", "query_raised", NoResponse, op.before)
    /\ UNCHANGED <<client, homeserver, creds, nio, objs>>
    /\ UNCHANGED nonsession

\* Mutant: the client is kept when the logout request raises
LogoutFinallyKeeps(o) == IF o = "raises" THEN "ready" ELSE "none"

\* "finally: await self.client.close(); self.client = None"
LogoutFinally(o) == "none"

\* logout up to "await self.client.logout()", or all of it without a client
LogoutStart ==
    /\ op.pc = "idle"
    /\ IF client # "none"
       THEN /\ op' = [name |-> "logout", pc |-> "request", ret |-> "none",
                      failed |-> "none", resp |-> NoResponse, before |-> creds]
            /\ UNCHANGED creds
       ELSE /\ creds' = clear_credentials(creds)
            /\ op' = Done("logout", "None", "no_client", NoResponse, creds)
    /\ UNCHANGED <<client, homeserver, nio, objs>>
    /\ UNCHANGED nonsession

\* the logout request ends with outcome o: except, finally, clear_credentials
LogoutResponds(o) ==
    /\ op.name = "logout"
    /\ op.pc = "request"
    /\ client' = LogoutFinally(o)
    /\ nio' = IF LogoutFinally(o) = "none" THEN NoIds ELSE nio
    /\ objs' = [objs EXCEPT ![nio.obj] = "closed"]
    /\ creds' = clear_credentials(creds)
    /\ op' = Done("logout", "None", o, NoResponse, op.before)
    /\ UNCHANGED homeserver
    /\ UNCHANGED nonsession

\* the code that awaited the call goes on
OpReturns ==
    /\ op.pc = "done"
    /\ op' = IdleOp
    /\ UNCHANGED <<client, homeserver, creds, nio, objs>>
    /\ UNCHANGED nonsession

\* the process ends and a new MatrixClient is constructed; the credentials
\* table stays
SessionRestart ==
    /\ client # "none" \/ homeserver # "None" \/ op # IdleOp
    /\ client' = "none"
    /\ homeserver' = "None"
    /\ nio' = NoIds
    /\ objs' = << >>
    /\ op' = IdleOp
    /\ UNCHANGED creds
    /\ UNCHANGED nonsession

InitSession ==
    /\ client = "none"
    /\ rooms = << >>
    /\ hashSeed = 0
    /\ hier = NoResult
    /\ prevHier = NoResult
    /\ nCalls = 0
    /\ homeserver = "None"
    /\ creds \in {NoRow} \cup
                 {[homeserver |-> hs, user_id |-> u, access_token |-> tk, device_id |-> d] :
                     hs \in Homeservers, u \in StoredUserIds, d \in StoredDeviceIds,
                     tk \in StoredTokens}
    /\ nio = NoIds
    /\ objs = << >>
    /\ op = IdleOp
    /\ MediaIdle
    /\ SlotsIdle
    /\ ProfileIdle
    /\ SyncIdle
    /\ MembershipIdle
    /\ VerificationIdle
    /\ StorageIdle
    /\ RoundsIdle
    /\ ViewIdle
    /\ StartupIdle

NextSession ==
    \/ \E hs \in Homeservers \cup {"None"} : LoginStart(hs)
    \/ \E o \in LoginOutcomes : \E r \in LoginResponses : \E sv \in StoreOutcomes :
          \E up \in BOOLEAN : LoginResponds(o, r, sv, up)
    \/ \E o \in KeysOutcomes : KeysUploadEnds(o)
    \/ \E q \in BOOLEAN : RestoreStart(q)
    \/ \E o \in QueryOutcomes : KeysQueryEnds(o)
    \/ LogoutStart
    \/ \E o \in LogoutOutcomes : LogoutResponds(o)
    \/ OpReturns
    \/ SessionRestart

SpecSession == InitSession /\ [][NextSession]_vars

(***************************************************************************)
(* MatrixClient.start_sync / _sync_loop / stop_sync                        *)
(* The calls of the public interface come in any order, next to login,     *)
(* restore_session and logout; start_sync is called when none of these     *)
(* three is under way. A _sync_loop task runs from one await of            *)
(* self.client.sync(..) to the next in one step.                           *)
(***************************************************************************)
Observers == {"w1", "w2"}

SyncResults == {"SyncResponse", "SyncError", "raises"}

\* what "await self.client.sync(timeout=30000)" of task l ends with: the
\* session of a closed client is gone, a token that is missing or revoked
\* gets no SyncResponse
SyncOutcomes(l) ==
    IF objs[loops[l].on] = "closed" THEN {"raises"}
    ELSE IF loops[l].token \in Revoked \cup {"None"} THEN {"SyncError", "raises"}
    ELSE {"SyncResponse", "SyncError", "raises"}

LoopRunning(l) == loops[l].pc \in {"created", "initial", "polling"}

\* the task awaits self.client.sync(..)
Polling(l) == loops[l].pc \in {"initial", "polling"}

\* the task has ended; it awaits no call any more
Ended(l, why) ==
    [FreeLoop EXCEPT !.pc = "ended", !.why = why, !.cancel = loops[l].cancel]

\* "self.client.sync(timeout=30000)" is evaluated: without a client the
\* AttributeError ends the loop in "except Exception"
SyncCall(l, pc) ==
    IF client = "none"
    THEN Ended(l, "raised")
    ELSE [loops[l] EXCEPT !.pc = pc, !.on = nio.obj, !.token = nio.access_token]

\* start_sync, called when no login, restore_session or logout is under way:
\* the guard, and the task is created and kept in _sync_task
StartSync ==
    /\ op.pc = "idle"
    /\ \E l \in LoopIds : loops[l].pc = "free"
    /\ LET l == CHOOSE k \in LoopIds :
                    loops[k].pc = "free" /\ \A j \in LoopIds : j < k => loops[j].pc # "free"
       IN  IF client = "none"
           THEN UNCHANGED <<loops, sync_task>>
           ELSE /\ loops' = [loops EXCEPT ![l] = [FreeLoop EXCEPT !.pc = "created"]]
                /\ sync_task' = l
    /\ UNCHANGED <<on_sync, served, calls, stopper>>
    /\ UNCHANGED nonsync

\* the task starts: the initial sync is called; a task cancelled before it
\* started never runs
LoopBegins(l) ==
    /\ loops[l].pc = "created"
    /\ loops' = [loops EXCEPT ![l] =
                    IF loops[l].cancel THEN Ended(l, "cancelled")
                    ELSE SyncCall(l, "initial")]
    /\ UNCHANGED <<on_sync, sync_task, served, calls, stopper>>
    /\ UNCHANGED nonsync

\* Mutant: the response of the initial sync is not passed on
InvokedInLoopOnly(pc, r) == pc = "polling" /\ r # 0

\* whether the observer is invoked for what the sync call returned; r is the
\* number of the SyncResponse, 0 for an error response
Invoked(pc, r) == pc = "initial" \/ r # 0

\* what a call of the observer ends with
CallbackOutcomes == {"returns", "raises"}

\* Mutant: an exception of the observer leaves the loop
AfterCallbackPropagates(l, inv, cb) ==
    IF inv /\ cb = "raises" THEN Ended(l, "raised") ELSE SyncCall(l, "polling")

\* the loop after the observer was or was not invoked: "except Exception as
\* e: logger.error(..)" around the invocation, then the next sync call
AfterCallback(l, inv, cb) == SyncCall(l, "polling")

\* the sync call of task l returns o: the observer is invoked and returns or
\* raises (cb), the next sync is called; or the call raises and "except
\* Exception" ends the loop.  ind: the response leaves a key query or key
\* upload outstanding (should_query_keys, should_upload_keys)
SyncReturns(l, o, cb, ind) ==
    /\ Polling(l)
    /\ ~loops[l].cancel
    /\ o \in SyncOutcomes(l)
    /\ IF o = "raises"
       THEN /\ loops' = [loops EXCEPT ![l] = Ended(l, "raised")]
            /\ cb = "returns" /\ ~ind
            /\ UNCHANGED <<served, calls, cb_raised, keys_due>>
       ELSE LET r == IF o = "SyncResponse" THEN served + 1 ELSE 0
                inv == on_sync # "None" /\ Invoked(loops[l].pc, r)
            IN  /\ r # 0 => served < MaxSyncs
                /\ ~inv => cb = "returns"
                /\ r = 0 => ~ind
                /\ served' = IF r = 0 THEN served ELSE r
                /\ calls' = IF inv THEN Append(calls, [cb |-> on_sync, arg |-> r])
                            ELSE calls
                /\ cb_raised' = IF inv THEN cb = "raises" ELSE cb_raised
                /\ keys_due' = (keys_due \/ ind)
                /\ loops' = [loops EXCEPT ![l] = AfterCallback(l, inv, cb)]
    /\ UNCHANGED <<on_sync, sync_task, stopper>>
    /\ UNCHANGED nonrounds

\* the CancelledError arrives at the await of the sync call:
\* "except asyncio.CancelledError"
LoopCancelled(l) ==
    /\ Polling(l)
    /\ loops[l].cancel
    /\ loops' = [loops EXCEPT ![l] = Ended(l, "cancelled")]
    /\ UNCHANGED <<on_sync, sync_task, served, calls, stopper>>
    /\ UNCHANGED nonsync

\* stop_sync up to "await self._sync_task"
StopSyncStart ==
    /\ stopper.pc = "idle"
    /\ IF sync_task = 0
       THEN /\ stopper' = [pc |-> "done", task |-> 0, ret |-> "None"]
            /\ UNCHANGED loops
       ELSE /\ loops' = [loops EXCEPT ![sync_task].cancel =
                            IF LoopRunning(sync_task) THEN TRUE ELSE @]
            /\ stopper' = [pc |-> "awaiting", task |-> sync_task, ret |-> "none"]
    /\ UNCHANGED <<on_sync, sync_task, served, calls>>
    /\ UNCHANGED nonsync

\* the awaited task has ended: "except asyncio.CancelledError: pass" and
\* "self._sync_task = None"
StopSyncEnds ==
    /\ stopper.pc = "awaiting"
    /\ loops[stopper.task].pc = "ended"
    /\ sync_task' = 0
    /\ stopper' = [stopper EXCEPT !.pc = "done", !.ret = "None"]
    /\ UNCHANGED <<on_sync, loops, served, calls>>
    /\ UNCHANGED nonsync

\* the code that awaited stop_sync goes on
StopSyncReturns ==
    /\ stopper.pc = "done"
    /\ stopper' = IdleStopper
    /\ UNCHANGED <<on_sync, sync_task, loops, served, calls>>
    /\ UNCHANGED nonsync

\* MainWindow.__init__: "self.matrix_client.on_sync = self.on_sync"; the
\* window is built when a session exists, and a later main window replaces
\* the observer of an earlier one
RegisterObserver(w) ==
    /\ client = "ready"
    /\ op.pc = "idle"
    /\ on_sync # w
    /\ on_sync = "w2" => w # "w1"
    /\ on_sync' = w
    /\ UNCHANGED <<sync_task, loops, served, calls, stopper>>
    /\ UNCHANGED nonsync

InitSync ==
    /\ client = "none"
    /\ rooms = << >>
    /\ hashSeed = 0
    /\ hier = NoResult
    /\ prevHier = NoResult
    /\ nCalls = 0
    /\ homeserver = "None"
    /\ creds \in {NoRow} \cup
                 {[homeserver |-> hs, user_id |-> <<64, 117>>, access_token |-> tk,
                   device_id |-> <<68>>] : hs \in Homeservers, tk \in StoredTokens}
    /\ nio = NoIds
    /\ objs = << >>
    /\ op = IdleOp
    /\ MediaIdle
    /\ SlotsIdle
    /\ ProfileIdle
    /\ SyncIdle
    /\ MembershipIdle
    /\ VerificationIdle
    /\ StorageIdle
    /\ RoundsIdle
    /\ ViewIdle
    /\ StartupIdle

NextSync ==
    \/ \E hs \in Homeservers : LoginStart(hs)
    \/ \E o \in LoginOutcomes : \E r \in {x \in LoginResponses : x.access_token = "t1"} :
          LoginResponds(o, r, "committed", FALSE)
    \/ RestoreStart(FALSE)
    \/ LogoutStart
    \/ \E o \in LogoutOutcomes : LogoutResponds(o)
    \/ OpReturns
    \/ StartSync
    \/ \E l \in LoopIds : LoopBegins(l)
    \/ \E l \in LoopIds : \E o \in SyncResults : SyncReturns(l, o, "returns", FALSE)
    \/ \E l \in LoopIds : LoopCancelled(l)
    \/ StopSyncStart
    \/ StopSyncEnds
    \/ StopSyncReturns
    \/ \E w \in Observers : RegisterObserver(w)

SpecSync == InitSync /\ [][NextSync]_vars

\* the sync loop of a restored session, with observers that may raise and
\* responses that leave key bookkeeping outstanding
NextRounds ==
    \/ RestoreStart(FALSE)
    \/ OpReturns
    \/ StartSync
    \/ \E l \in LoopIds : LoopBegins(l)
    \/ \E l \in LoopIds : \E o \in SyncResults : \E cb \in CallbackOutcomes :
          \E ind \in BOOLEAN : SyncReturns(l, o, cb, ind)
    \/ \E l \in LoopIds : LoopCancelled(l)
    \/ StopSyncStart
    \/ StopSyncEnds
    \/ StopSyncReturns
    \/ \E w \in Observers : RegisterObserver(w)

SpecRounds == InitSync /\ [][NextRounds]_vars

(***************************************************************************)
(* MatrixClient.join_room / leave_room                                     *)
(* Each call is a task of its own (room_list.py:351, message_view.py:754). *)
(***************************************************************************)
RoomIds == {"!a", "!b"}

\* what "await self.client.join(..)" ends with
JoinOutcomes == {"JoinResponse", "JoinError", "raises"}

\* what "await self.client.room_leave(..)" ends with
LeaveOutcomes == {"RoomLeaveResponse", "RoomLeaveError", "raises"}

\* hasattr(response, 'room_id'): JoinResponse has the field, JoinError has
\* message, status_code, retry_after_ms and soft_logout
HasRoomId(o) == o = "JoinResponse"

\* the server's membership after the request
Membership(o, room) ==
    IF o = "JoinResponse" THEN joined \cup {room}
    ELSE IF o = "RoomLeaveResponse" THEN joined \ {room}
    ELSE joined

\* the call has returned
CallReturned(name, room, got, ret) ==
    [name |-> name, pc |-> "done", room |-> room, got |-> got, ret |-> ret]

\* join_room / leave_room up to the request: "if not self.client: return False"
MemberCall(c, name, room) ==
    /\ mcalls[c].pc = "idle"
    /\ mcalls' = [mcalls EXCEPT ![c] =
                    IF client = "none" THEN CallReturned(name, room, "no_client", "False")
                    ELSE [name |-> name, pc |-> "request", room |-> room,
                          got |-> "none", ret |-> "none"]]
    /\ UNCHANGED <<client, joined>>
    /\ UNCHANGED nonmember

\* "return hasattr(response, 'room_id')", "except Exception: return False"
JoinResult(o) ==
    IF o = "raises" THEN "False"
    ELSE IF HasRoomId(o) THEN "True" ELSE "False"

\* "await self.client.room_leave(room_id); return True",
\* "except Exception: return False"
LeaveResult(o) == IF o = "raises" THEN "False" ELSE "True"

\* the request of join_room ends with o
JoinResponds(c, o) ==
    /\ mcalls[c].name = "join_room"
    /\ mcalls[c].pc = "request"
    /\ joined' = Membership(o, mcalls[c].room)
    /\ mcalls' = [mcalls EXCEPT ![c] = CallReturned("join_room", mcalls[c].room, o, JoinResult(o))]
    /\ UNCHANGED client
    /\ UNCHANGED nonmember

\* the request of leave_room ends with o
LeaveResponds(c, o) ==
    /\ mcalls[c].name = "leave_room"
    /\ mcalls[c].pc = "request"
    /\ joined' = Membership(o, mcalls[c].room)
    /\ mcalls' = [mcalls EXCEPT ![c] = CallReturned("leave_room", mcalls[c].room, o, LeaveResult(o))]
    /\ UNCHANGED client
    /\ UNCHANGED nonmember

\* the task that made the call goes on
MemberCallConsumed(c) ==
    /\ mcalls[c].pc = "done"
    /\ mcalls' = [mcalls EXCEPT ![c] = NoCall]
    /\ UNCHANGED <<client, joined>>
    /\ UNCHANGED nonmember

InitMembership ==
    /\ client \in {"none", "ready"}
    /\ rooms = << >>
    /\ hashSeed = 0
    /\ hier = NoResult
    /\ prevHier = NoResult
    /\ nCalls = 0
    /\ joined \in SUBSET RoomIds
    /\ mcalls = [c \in 1..MaxCallers |-> NoCall]
    /\ MediaIdle
    /\ SlotsIdle
    /\ ProfileIdle
    /\ SessionIdle
    /\ SyncIdle
    /\ VerificationIdle
    /\ StorageIdle
    /\ RoundsIdle
    /\ ViewIdle
    /\ StartupIdle

NextMembership ==
    \/ \E c \in 1..MaxCallers : \E name \in {"join_room", "leave_room"} :
          \E room \in RoomIds : MemberCall(c, name, room)
    \/ \E c \in 1..MaxCallers : \E o \in JoinOutcomes : JoinResponds(c, o)
    \/ \E c \in 1..MaxCallers : \E o \in LeaveOutcomes : LeaveResponds(c, o)
    \/ \E c \in 1..MaxCallers : MemberCallConsumed(c)
    \/ ClientReady
    \/ ClientDropped

SpecMembership == InitMembership /\ [][NextMembership]_vars

(***************************************************************************)
(* Device verification: the verification table of the session and the      *)
(* VerificationDialog (src/gui/verification_dialog.py).  The dialog calls  *)
(* client.confirm_sas and client.cancel_verification; the table they act   *)
(* on and its transitions follow the state machine of the design.          *)
(***************************************************************************)
Kinds == {"request", "start", "key", "mac", "done", "cancel"}

Live(t) == t.state \in {"Requested", "Started", "KeyExchanged", "MacExchanged"}

\* the entry created by an event with request semantics
NewTx == [NoTx EXCEPT !.state = "Requested"]

\* the transaction is cancelled; what had been exchanged stays on record
Cancel(t) == [t EXCEPT !.state = "Cancelled"]

\* what a message of one side leaves on the transaction.  The order of the
\* messages is not looked at: a key, mac or done message is taken at any
\* point of a live transaction
Record(t, kind, dir) ==
    CASE kind = "key"  -> IF dir = "in" THEN [t EXCEPT !.key_rcvd = TRUE]
                                        ELSE [t EXCEPT !.key_sent = TRUE]
      [] kind = "mac"  -> IF dir = "in"
                          THEN [t EXCEPT !.mac_rcvd = TRUE,
                                         !.early_mac = @ \/ (~t.key_rcvd /\ ~t.key_sent)]
                          ELSE [t EXCEPT !.mac_sent = TRUE]
      [] kind = "done" -> IF dir = "in" THEN [t EXCEPT !.done_rcvd = TRUE]
                                        ELSE [t EXCEPT !.done_sent = TRUE]
      [] OTHER -> t

\* the next state once what it needs has been exchanged
Advance(t) ==
    CASE t.state = "Started" /\ t.key_rcvd /\ t.key_sent -> [t EXCEPT !.state = "KeyExchanged"]
      [] t.state = "KeyExchanged" /\ t.mac_rcvd /\ t.mac_sent ->
             [t EXCEPT !.state = "MacExchanged"]
      [] t.state = "MacExchanged" /\ t.done_rcvd /\ t.done_sent -> [t EXCEPT !.state = "Done"]
      [] OTHER -> t

\* the transition of one transaction on one message: a request for an id
\* without a live transaction makes the entry, any other message for such
\* an id is dropped
Step(t, kind, dir) ==
    IF ~Live(t)
    THEN IF kind = "request" THEN NewTx ELSE t
    ELSE CASE kind = "cancel"  -> Cancel(t)
           [] kind = "request" -> t
           [] kind = "start"   -> IF t.state = "Requested"
                                  THEN Advance(Advance(Advance([t EXCEPT !.state = "Started"])))
                                  ELSE t
           [] OTHER -> Advance(Advance(Advance(Record(t, kind, dir))))

\* client.confirm_sas(tx): the user's confirmation sends our mac; without
\* a transaction that waits for it nothing happens
confirm_sas(table, tx) ==
    IF table[tx].state = "KeyExchanged" /\ ~table[tx].mac_sent
    THEN [table EXCEPT ![tx] = Step(@, "mac", "out")]
    ELSE table

\* client.cancel_verification(tx)
cancel_verification(table, tx) == [table EXCEPT ![tx] = Step(@, "cancel", "out")]

\* a to-device event of the peer, of any kind at any time.  A request opens
\* a new transaction of an id only once the dialog of the earlier one is gone
ToDevice(tx, kind) ==
    /\ kind = "request" => ~(dialog.open /\ dialog.tx = tx)
    /\ vtable' = [vtable EXCEPT ![tx] = Step(@, kind, "in")]
    /\ vtable' # vtable
    /\ UNCHANGED <<dialog, nonverif>>

\* the local user starts a verification
RequestLocal(tx) ==
    /\ ~Live(vtable[tx])
    /\ ~(dialog.open /\ dialog.tx = tx)
    /\ vtable' = [vtable EXCEPT ![tx] = Step(@, "request", "out")]
    /\ UNCHANGED <<dialog, nonverif>>

\* this side sends the start message of the SAS method
SendStart(tx) ==
    /\ vtable[tx].state = "Requested"
    /\ vtable' = [vtable EXCEPT ![tx] = Step(@, "start", "out")]
    /\ UNCHANGED <<dialog, nonverif>>

\* this side sends its key
SendKey(tx) ==
    /\ vtable[tx].state = "Started"
    /\ ~vtable[tx].key_sent
    /\ vtable' = [vtable EXCEPT ![tx] = Step(@, "key", "out")]
    /\ UNCHANGED <<dialog, nonverif>>

\* the crypto state reports "verified": this side sends done
SendDone(tx) ==
    /\ vtable[tx].state = "MacExchanged"
    /\ ~vtable[tx].done_sent
    /\ vtable' = [vtable EXCEPT ![tx] = Step(@, "done", "out")]
    /\ UNCHANGED <<dialog, nonverif>>

\* the mutant: a dialog whose confirm button can be pressed from the start
NewDialogConfirmable(tx) ==
    [open |-> TRUE, tx |-> tx, status |-> "waiting", emojis |-> FALSE, confirm |-> TRUE]

\* VerificationDialog(parent, client, loop, tx_id, user_id): status
\* "Waiting for other device...", no emojis, confirm button insensitive
NewDialog(tx) ==
    [open |-> TRUE, tx |-> tx, status |-> "waiting", emojis |-> FALSE, confirm |-> FALSE]

\* show_emojis(emojis)
show_emojis(d) == [d EXCEPT !.status = "compare", !.emojis = TRUE, !.confirm = TRUE]

\* the mutant: the confirm button of the dialog sends nothing
ConfirmRequestNone(table, tx) == table

\* the client call that on_confirm_clicked schedules
ConfirmRequest(table, tx) == confirm_sas(table, tx)

\* on_confirm_clicked: the dialog itself; close() is scheduled 2 s later
on_confirm_clicked(d) == [d EXCEPT !.status = "successful", !.confirm = FALSE]

\* close(): the window is gone, what it last showed stays on record
Closed(d) == [d EXCEPT !.open = FALSE, !.confirm = FALSE]

\* the dialog of a live transaction is put up
DialogOpens(tx) ==
    /\ ~dialog.open
    /\ Live(vtable[tx])
    /\ dialog' = NewDialog(tx)
    /\ UNCHANGED <<vtable, nonverif>>

\* the emojis are handed to the dialog once the keys have been exchanged
ShowEmojis ==
    /\ dialog.open
    /\ ~dialog.emojis
    /\ vtable[dialog.tx].state = "KeyExchanged"
    /\ dialog' = show_emojis(dialog)
    /\ UNCHANGED <<vtable, nonverif>>

\* the user presses "They Match"
ConfirmClicked ==
    /\ dialog.open
    /\ dialog.confirm
    /\ dialog' = on_confirm_clicked(dialog)
    /\ vtable' = ConfirmRequest(vtable, dialog.tx)
    /\ UNCHANGED nonverif

\* the user presses "Cancel": on_cancel_clicked
CancelClicked ==
    /\ dialog.open
    /\ vtable' = cancel_verification(vtable, dialog.tx)
    /\ dialog' = Closed(dialog)
    /\ UNCHANGED nonverif

\* the close() that on_confirm_clicked scheduled runs
DialogCloses ==
    /\ dialog.open
    /\ dialog.status = "successful"
    /\ dialog' = Closed(dialog)
    /\ UNCHANGED <<vtable, nonverif>>

InitVerification ==
    /\ HierarchyIdle
    /\ MediaIdle
    /\ SlotsIdle
    /\ ProfileIdle
    /\ SessionIdle
    /\ SyncIdle
    /\ MembershipIdle
    /\ VerificationIdle
    /\ StorageIdle
    /\ RoundsIdle
    /\ ViewIdle
    /\ StartupIdle

NextVerification ==
    \/ \E tx \in TxIds : \E kind \in Kinds : ToDevice(tx, kind)
    \/ \E tx \in TxIds : RequestLocal(tx)
    \/ \E tx \in TxIds : SendStart(tx)
    \/ \E tx \in TxIds : SendKey(tx)
    \/ \E tx \in TxIds : SendDone(tx)
    \/ \E tx \in TxIds : DialogOpens(tx)
    \/ ShowEmojis
    \/ ConfirmClicked
    \/ CancelClicked
    \/ DialogCloses

SpecVerification == InitVerification /\ [][NextVerification]_vars

(***************************************************************************)
(* CredentialStorage with its full interface (src/matrix/storage.py): the  *)
(* credentials table, save_credentials with extra_data, load_credentials,  *)
(* clear_credentials, has_credentials.                                     *)
(***************************************************************************)
StoreTokens == {"t0", "t1"}

StoreUsers == {"@u", "@v"}

\* a dict of strings
Dict(keys, val) == [k \in keys |-> val]

\* the extra_data arguments: None, {}, a dict of its own keys, a dict that
\* uses the name of a credential field
ExtraData ==
    {[none |-> TRUE],
     [none |-> FALSE, d |-> EmptyMap],
     [none |-> FALSE, d |-> Dict({"theme"}, "dark")],
     [none |-> FALSE, d |-> Dict({"access_token"}, "other")]}

\* "if extra_data": None and {} are false
Truthy(extra) == ~extra.none /\ DOMAIN extra.d # {}

\* data_json = json.dumps(extra_data) if extra_data else None
DataJson(extra) ==
    IF Truthy(extra) THEN [null |-> FALSE, text |-> extra.d] ELSE [null |-> TRUE]

\* extra_data = json.loads(data_json) if data_json else {}
ExtraOf(data) == IF data.null THEN EmptyMap ELSE data.text

\* {**a, **b}: the keys of b win
Merge(a, b) ==
    [k \in DOMAIN a \cup DOMAIN b |-> IF k \in DOMAIN b THEN b[k] ELSE a[k]]

\* INSERT OR REPLACE ... VALUES (1, ?, ?, ?, ?, ?): the row of id 1 goes,
\* the new row comes
InsertOrReplace(tbl, row) == {r \in tbl : r.id # row.id} \cup {row}

\* save_credentials(homeserver, user_id, access_token, device_id, extra_data)
SaveCredentials(tbl, hs, u, tk, dev, extra) ==
    InsertOrReplace(tbl, [id |-> 1, homeserver |-> hs, user_id |-> u, access_token |-> tk,
                          device_id |-> dev, data |-> DataJson(extra)])

\* load_credentials(): None without a row of id 1, else the four columns
\* with the extra data laid over them
LoadCredentials(tbl) ==
    LET rows == {r \in tbl : r.id = 1}
    IN  IF rows = {} THEN [none |-> TRUE]
        ELSE LET row == CHOOSE r \in rows : TRUE
             IN  [none |-> FALSE,
                  dict |-> Merge([homeserver |-> row.homeserver, user_id |-> row.user_id,
                                  access_token |-> row.access_token,
                                  device_id |-> row.device_id],
                                 ExtraOf(row.data))]

\* clear_credentials(): DELETE FROM credentials WHERE id = 1
ClearCredentials(tbl) == {r \in tbl : r.id # 1}

\* has_credentials()
HasCredentials(tbl) == ~LoadCredentials(tbl).none

StoreSave(hs, u, tk, extra) ==
    /\ cred_table' = SaveCredentials(cred_table, hs, u, tk, "D", extra)
    /\ saved' = [homeserver |-> hs, user_id |-> u, access_token |-> tk, device_id |-> "D",
                 extra |-> extra]
    /\ UNCHANGED <<loaded, nonstore>>

StoreClear ==
    /\ cred_table' = ClearCredentials(cred_table)
    /\ saved' = NoSave
    /\ UNCHANGED <<loaded, nonstore>>

StoreLoad ==
    /\ loaded' = [call |-> "load_credentials", ret |-> LoadCredentials(cred_table)]
    /\ UNCHANGED <<cred_table, saved, nonstore>>

StoreHas ==
    /\ loaded' = [call |-> "has_credentials", ret |-> HasCredentials(cred_table)]
    /\ UNCHANGED <<cred_table, saved, nonstore>>

InitStorage ==
    /\ HierarchyIdle
    /\ MediaIdle
    /\ SlotsIdle
    /\ ProfileIdle
    /\ SessionIdle
    /\ SyncIdle
    /\ MembershipIdle
    /\ VerificationIdle
    /\ StorageIdle
    /\ RoundsIdle
    /\ ViewIdle
    /\ StartupIdle

NextStorage ==
    \/ \E hs \in Homeservers : \E u \in StoreUsers : \E tk \in StoreTokens :
          \E extra \in ExtraData : StoreSave(hs, u, tk, extra)
    \/ StoreClear
    \/ StoreLoad
    \/ StoreHas

SpecStorage == InitStorage /\ [][NextStorage]_vars

(***************************************************************************)
(* MessageView (src/gui/message_view.py): the displayed message list, the  *)
(* history fetch of set_room, "load older messages" and the live message   *)
(* callback.  The server keeps the messages of a room in a timeline; the   *)
(* message number k of room r has the event id [room |-> r, k |-> k].      *)
(***************************************************************************)
MaxEvents == 3

InitEvents == 2

\* the number of events of a room_messages response (limit)
ChunkSize == 2

Event(r, k) == [room |-> r, k |-> k]

Max2(a, b) == IF a > b THEN a ELSE b

\* room_messages, direction back: the events before position hi, the newest
\* first, and the token "end" for the ones before them
Chunk(r, hi) ==
    [i \in 1..(hi - Max2(hi - ChunkSize, 0)) |-> Event(r, hi + 1 - i)]

EndToken(r, hi) == [room |-> r, pos |-> Max2(hi - ChunkSize, 0)]

\* list.sort(key = server_timestamp) of events without repetition
RECURSIVE SortByTimestamp(_)
SortByTimestamp(S) ==
    IF S = {} THEN << >>
    ELSE LET e == CHOOSE x \in S : \A y \in S : x.k <= y.k
         IN  <<e>> \o SortByTimestamp(S \ {e})

\* add_message_to_ui(event) for a sequence of events, one after the other:
\* an event whose id is in _shown_event_ids is skipped
RECURSIVE AddAll(_, _, _)
AddAll(list, shown, events) ==
    IF events = << >> THEN [list |-> list, shown |-> shown]
    ELSE LET e == Head(events)
         IN  IF e \in shown THEN AddAll(list, shown, Tail(events))
             ELSE AddAll(Append(list, e), shown \cup {e}, Tail(events))

\* self.message_list.insert(row, 1)
InsertAt1(list, row) ==
    IF list = << >> THEN <<row>> ELSE <<Head(list), row>> \o Tail(list)

\* _prepend_history_events: "for event in reversed(events):
\* self._add_message_logical(event, prepend=True)"
RECURSIVE PrependAll(_, _)
PrependAll(list, events) ==
    IF events = << >> THEN list
    ELSE PrependAll(InsertAt1(list, events[Len(events)]),
                    SubSeq(events, 1, Len(events) - 1))

FreeFetches == {f \in 1..MaxFetches : fetches[f].pc = "free"}

\* set_room(room_id) with load_messages(): the list and the set of shown ids
\* are cleared, the history fetch of the room is started
SetRoom(r) ==
    /\ FreeFetches # {}
    /\ current_room_id' = r
    /\ message_list' = << >>
    /\ shown_event_ids' = {}
    /\ LET f == CHOOSE x \in FreeFetches : \A y \in FreeFetches : x <= y
       IN  fetches' = [fetches EXCEPT ![f] = [pc |-> "created", room |-> r, hi |-> 0]]
    /\ UNCHANGED <<prev_batch, more, timeline, delivered, nonview>>

\* the server answers the room_messages request of the task from its
\* timeline as it is now
FetchServed(f) ==
    /\ fetches[f].pc = "created"
    /\ fetches' = [fetches EXCEPT ![f].pc = "served", ![f].hi = timeline[fetches[f].room]]
    /\ UNCHANGED <<current_room_id, message_list, shown_event_ids, prev_batch, more,
                   timeline, delivered, nonview>>

\* _rebuild_messages_with_history(history_events) for the response of the
\* fetch of room fr: nothing without a current room; else the list is
\* cleared, the load-more row restored, the events added in timestamp order
Rebuild(fr, chunk) ==
    IF current_room_id = "None"
    THEN [list |-> message_list, shown |-> shown_event_ids]
    ELSE AddAll(<<LoadMoreRow>>, {}, SortByTimestamp({chunk[i] : i \in 1..Len(chunk)}))

\* _fetch_history after "await get_room_messages": with a response
\* prev_batch is set and the list rebuilt; an error response changes nothing
FetchReturns(f, ok) ==
    /\ fetches[f].pc = "served"
    /\ fetches' = [fetches EXCEPT ![f] = NoFetch]
    /\ IF ok
       THEN LET fr == fetches[f].room
                b == Rebuild(fr, Chunk(fr, fetches[f].hi))
            IN  /\ prev_batch' = EndToken(fr, fetches[f].hi)
                /\ message_list' = b.list
                /\ shown_event_ids' = b.shown
       ELSE UNCHANGED <<prev_batch, message_list, shown_event_ids>>
    /\ UNCHANGED <<current_room_id, more, timeline, delivered, nonview>>

\* a message is sent to the room
ServerEvent(r) ==
    /\ timeline[r] < MaxEvents
    /\ timeline' = [timeline EXCEPT ![r] = @ + 1]
    /\ UNCHANGED <<current_room_id, message_list, shown_event_ids, prev_batch, fetches,
                   more, delivered, nonview>>

\* on_room_message(room, event): the sync delivers the next message of the
\* room; it is added when the room is the current one
OnRoomMessage(r) ==
    /\ delivered[r] < timeline[r]
    /\ delivered' = [delivered EXCEPT ![r] = @ + 1]
    /\ LET b == IF r = current_room_id
                THEN AddAll(message_list, shown_event_ids, <<Event(r, delivered[r] + 1)>>)
                ELSE [list |-> message_list, shown |-> shown_event_ids]
       IN  /\ message_list' = b.list
           /\ shown_event_ids' = b.shown
    /\ UNCHANGED <<current_room_id, prev_batch, fetches, more, timeline, nonview>>

\* on_load_more_clicked: the button is in the list and sensitive
LoadMoreClicked ==
    /\ \E i \in 1..Len(message_list) : message_list[i] = LoadMoreRow
    /\ more.sensitive
    /\ current_room_id # "None"
    /\ prev_batch # NoToken
    /\ more' = [more EXCEPT !.sensitive = FALSE, !.pc = "created"]
    /\ UNCHANGED <<current_room_id, message_list, shown_event_ids, prev_batch, fetches,
                   timeline, delivered, nonview>>

\* _load_more_history starts: get_room_messages(self.current_room_id,
\* start=self.prev_batch) is called with what they hold now
LoadMoreBegins ==
    /\ more.pc = "created"
    /\ more' = [more EXCEPT !.pc = "awaiting", !.room = current_room_id, !.start = prev_batch]
    /\ UNCHANGED <<current_room_id, message_list, shown_event_ids, prev_batch, fetches,
                   timeline, delivered, nonview>>

\* _load_more_history after the await: a response sets prev_batch and hands
\* its events to _prepend_history_events; without a room, with a token of
\* another room and on an error there is no response
LoadMoreReturns(ok) ==
    /\ more.pc = "awaiting"
    /\ IF ok /\ more.room # "None" /\ more.start.room = more.room
       THEN /\ prev_batch' = EndToken(more.room, more.start.pos)
            /\ more' = [more EXCEPT !.pc = "finishing",
                                     !.chunk = Chunk(more.room, more.start.pos)]
       ELSE /\ more' = [more EXCEPT !.pc = "finishing", !.chunk = << >>]
            /\ UNCHANGED prev_batch
    /\ UNCHANGED <<current_room_id, message_list, shown_event_ids, fetches, timeline,
                   delivered, nonview>>

\* the idle callbacks of _load_more_history run: _prepend_history_events,
\* then the button is made sensitive again
LoadMoreFinishes ==
    /\ more.pc = "finishing"
    /\ message_list' = PrependAll(message_list, more.chunk)
    /\ more' = NoMore
    /\ UNCHANGED <<current_room_id, shown_event_ids, prev_batch, fetches, timeline,
                   delivered, nonview>>

\* _clear_room_view, after the room was left
ClearRoomView ==
    /\ current_room_id # "None"
    /\ current_room_id' = "None"
    /\ message_list' = << >>
    /\ UNCHANGED <<shown_event_ids, prev_batch, fetches, more, timeline, delivered, nonview>>

InitView ==
    /\ HierarchyIdle
    /\ MediaIdle
    /\ SlotsIdle
    /\ ProfileIdle
    /\ SessionIdle
    /\ SyncIdle
    /\ MembershipIdle
    /\ VerificationIdle
    /\ StorageIdle
    /\ RoundsIdle
    /\ current_room_id = "None"
    /\ message_list = <<LoadMoreRow>>
    /\ shown_event_ids = {}
    /\ prev_batch = NoToken
    /\ fetches = [f \in 1..MaxFetches |-> NoFetch]
    /\ more = NoMore
    /\ timeline = [r \in RoomIds |-> InitEvents]
    /\ delivered = [r \in RoomIds |-> InitEvents]
    /\ StartupIdle

NextView ==
    \/ \E r \in RoomIds : SetRoom(r)
    \/ \E f \in 1..MaxFetches : FetchServed(f)
    \/ \E f \in 1..MaxFetches : \E ok \in BOOLEAN : FetchReturns(f, ok)
    \/ \E r \in RoomIds : ServerEvent(r)
    \/ \E r \in RoomIds : OnRoomMessage(r)
    \/ LoadMoreClicked
    \/ LoadMoreBegins
    \/ \E ok \in BOOLEAN : LoadMoreReturns(ok)
    \/ LoadMoreFinishes
    \/ ClearRoomView

SpecView == InitView /\ [][NextView]_vars

(***************************************************************************)
(* OMOMatrixApp.do_activate / _restore_session / show_login_window /       *)
(* show_main_window  (src/gui/application.py)                              *)
(***************************************************************************)

\* show_login_window: the login window is created if need be and presented
show_login_window(a) == [a EXCEPT !.login_window = TRUE]

\* show_main_window: the main window is created if need be, the login window
\* closed, the main window presented and a start_sync task created
show_main_window(a) ==
    [a EXCEPT !.main_window = TRUE, !.login_window = FALSE, !.sync_tasks = @ + 1]

\* do_activate: with stored credentials the application is held and the
\* _restore_session task created, without them the login window is shown
Activate ==
    /\ app.pc = "constructed"
    /\ app' = IF has_credentials(creds)
              THEN [app EXCEPT !.pc = "activated", !.holds = @ + 1, !.task = "created"]
              ELSE show_login_window([app EXCEPT !.pc = "activated"])
    /\ UNCHANGED nonapp

\* the _restore_session task runs up to the first await of restore_session
RestoreTaskRuns(q) ==
    /\ app.task = "created"
    /\ RestoreCall(q)
    /\ app' = [app EXCEPT !.task = "awaiting"]
    /\ UNCHANGED nonstartup

\* what _restore_session does with what restore_session ended with: the
\* main window on True, the login window on False; there is no except
\* clause, an exception passes through "finally: self.release()" and ends
\* the task
AfterRestore(a, ret) ==
    IF ret = "True" THEN show_main_window([a EXCEPT !.task = "finished"])
    ELSE IF ret = "False" THEN show_login_window([a EXCEPT !.task = "finished"])
    ELSE [a EXCEPT !.task = "failed"]

\* restore_session has ended and the _restore_session task goes on to its end
RestoreTaskEnds ==
    /\ app.task = "awaiting"
    /\ op.name = "restore_session"
    /\ op.pc = "done"
    /\ op' = IdleOp
    /\ app' = AfterRestore([app EXCEPT !.holds = @ - 1], op.ret)
    /\ UNCHANGED <<client, homeserver, creds, nio, objs>>
    /\ UNCHANGED nonstartup

\* on_login_clicked / _do_login of the login window, up to the login request
LoginClicked(hs) ==
    /\ app.login_window
    /\ LoginStart(hs)

\* the rest of _do_login: _on_login_success emits login-success and
\* on_login_success shows the main window; a failed login shows an error
LoginTaskEnds ==
    /\ app.login_window
    /\ op.name = "login"
    /\ op.pc = "done"
    /\ op' = IdleOp
    /\ app' = IF op.ret = "True" THEN show_main_window(app) ELSE app
    /\ UNCHANGED <<client, homeserver, creds, nio, objs>>
    /\ UNCHANGED nonstartup

InitStartup == InitSession

NextStartup ==
    \/ Activate
    \/ \E q \in BOOLEAN : RestoreTaskRuns(q)
    \/ \E o \in QueryOutcomes : KeysQueryEnds(o)
    \/ RestoreTaskEnds
    \/ \E hs \in Homeservers : LoginClicked(hs)
    \/ \E o \in LoginOutcomes : \E r \in LoginResponses : \E sv \in StoreOutcomes :
          \E up \in BOOLEAN : LoginResponds(o, r, sv, up)
    \/ \E o \in KeysOutcomes : KeysUploadEnds(o)
    \/ LoginTaskEnds

\* the event loop runs the _restore_session task it holds, and the key query
\* ends; nothing is assumed of the user
SpecStartup ==
    /\ InitStartup
    /\ [][NextStartup]_vars
    /\ WF_vars(\E q \in BOOLEAN : RestoreTaskRuns(q))
    /\ WF_vars(\E o \in QueryOutcomes : KeysQueryEnds(o))
    /\ WF_vars(RestoreTaskEnds)

(***************************************************************************)
(* Properties of get_hierarchy                                             *)
(***************************************************************************)
Called == hier # NoResult /\ client = "ready"

Orphans == Range(hier.orphans)

TopLevel == Range(hier.top_level_spaces)

ChildrenOf(a) == IF a \in DOMAIN hier.children THEN Range(hier.children[a]) ELSE {}

\* ids reachable by following children lists from the ids in S
RECURSIVE ReachableFrom(_)
ReachableFrom(S) ==
    LET next == S \cup UNION {ChildrenOf(a) : a \in S}
    IN  IF next = S THEN S ELSE ReachableFrom(next)

\* A is a joined parent of B in the union of both pointer directions
UnionParent(a, b) ==
    /\ a \in JoinedIds
    /\ b \in JoinedIds
    /\ (b \in RoomOf(a).children \/ a \in RoomOf(b).parents)

\* the key the lists are to be ordered by: lower-cased display name, or
\* lower-cased room id when the room has no display name
ClaimKey(rid) ==
    LET r == RoomOf(rid)
        name == IF r.display_name = << >> THEN IdStr(rid) ELSE r.display_name
    IN  [i \in DOMAIN name |-> IF name[i] \in 65..90 THEN name[i] + 32 ELSE name[i]]

IsSortedByName(l) ==
    \A i \in DOMAIN l : \A j \in DOMAIN l :
        i < j => ~StrLess(ClaimKey(l[j]), ClaimKey(l[i]))

OutputLists ==
    {hier.top_level_spaces, hier.orphans} \cup {hier.children[k] : k \in DOMAIN hier.children}

\* C1: every joined room id is listed in orphans or is reachable through
\* children lists from a top-level space (stated as the claim states it; the
\* code violates it).
C1_EveryRoomCovered ==
    Called => \A rid \in JoinedIds : rid \in Orphans \/ rid \in ReachableFrom(TopLevel)

\* C2: no id is both an orphan and a descendant of a space: no orphan appears
\* in any children list, and no id is in both top_level_spaces and orphans.
C2_OrphansNotReachable ==
    Called => \A o \in Orphans :
                /\ \A k \in DOMAIN hier.children : o \notin Range(hier.children[k])
                /\ o \notin TopLevel

C2_Witness ==
    /\ Called
    /\ Orphans # {}
    /\ \E k \in DOMAIN hier.children :
          \E b \in Range(hier.children[k]) : k \notin RoomOf(b).parents

\* C3: if A's children set contains B or B's parents set contains A (A, B
\* joined), then B is in children[A] and B is neither an orphan nor a
\* top-level space (stated as the claim states it; the code violates it).
C3_UnionBothDirections ==
    Called => \A a \in JoinedIds : \A b \in JoinedIds :
                UnionParent(a, b) =>
                    /\ b \in ChildrenOf(a)
                    /\ b \notin Orphans
                    /\ b \notin TopLevel

\* C4: every children list, top_level_spaces and orphans is in non-decreasing
\* order of the lower-cased display name, the room id standing in for a
\* missing display name.
C4_ListsSortedByName ==
    Called => \A l \in OutputLists : IsSortedByName(l)

C4_Witness ==
    /\ Called
    /\ \E l \in OutputLists : \E i \in DOMAIN l : \E j \in DOMAIN l :
          /\ i < j
          /\ RoomOf(l[i]).display_name = << >>
          /\ RoomOf(l[j]).display_name # << >>
    /\ \E l \in OutputLists : \E i \in DOMAIN l : \E j \in DOMAIN l :
          /\ i < j
          /\ StrLess(ClaimKey(l[i]), ClaimKey(l[j]))
          /\ RoomOf(l[i]).display_name = <<97>>
          /\ RoomOf(l[j]).display_name = <<66>>

C6_ParentlessPlaced ==
    Called => \A r \in JoinedIds :
                ( /\ RoomOf(r).parents \cap JoinedIds = {}
                  /\ \A a \in JoinedIds : r \notin RoomOf(a).children )
                => IF RoomOf(r).room_type = "m.space"
                   THEN r \in TopLevel /\ r \notin Orphans
                   ELSE r \in Orphans /\ r \notin TopLevel

C6_Witness ==
    /\ Called
    /\ \E r \in JoinedIds : \E s \in JoinedIds :
          /\ RoomOf(r).parents # {}
          /\ RoomOf(r).parents \cap JoinedIds = {}
          /\ r \in Orphans
          /\ RoomOf(s).parents # {}
          /\ RoomOf(s).parents \cap JoinedIds = {}
          /\ s \in TopLevel

(***************************************************************************)
(* Properties of get_media / get_avatar                                    *)
(***************************************************************************)
InFlight(t) == tasks[t].pc \in {"created", "waitsem", "thumbnail", "full"}

Requesting(t) == tasks[t].pc \in {"thumbnail", "full"}

CallerKey(c) == CacheKey(callers[c].ref, callers[c].size)

\* C7: single flight. For every cache key at most one download is in flight,
\* and all calls that wait for an in-flight download of that key wait for
\* that same download, which is the one registered in the in-flight table.
C7_SingleFlight ==
    /\ \A t1 \in TaskIds : \A t2 \in TaskIds :
          (InFlight(t1) /\ InFlight(t2) /\ tasks[t1].key = tasks[t2].key) => t1 = t2
    /\ \A c \in Callers :
          (callers[c].st = "await" /\ InFlight(callers[c].task)) =>
              /\ tasks[callers[c].task].key = CallerKey(c)
              /\ CallerKey(c) \in DOMAIN active_downloads
              /\ active_downloads[CallerKey(c)] = callers[c].task

C7_Witness ==
    \E c1 \in Callers : \E c2 \in Callers :
        /\ c1 # c2
        /\ callers[c1].st = "await"
        /\ callers[c2].st = "await"
        /\ CallerKey(c1) = CallerKey(c2)
        /\ callers[c1].task = callers[c2].task
        /\ Requesting(callers[c1].task)
        /\ \A t \in TaskIds : InFlight(t) => t = callers[c1].task

\* C8: the in-flight table holds no entry of a download that has ended: every
\* entry refers to a download that is still running (stated as the claim
\* states it; the code violates it).
C8_NoStaleEntry ==
    \A k \in DOMAIN active_downloads : InFlight(active_downloads[k])

\* a step in which caller c calls get_media / get_avatar
CallStep(c) == callers[c].st = "idle" /\ callers'[c].st # "idle"

\* C9 as stated: a call for a reference in the negative-result set starts and
\* joins no download and returns none, whatever the size (the code returns the
\* cached path when the key is in the in-memory path cache).
C9_NegativeReturnsNone ==
    [][\A c \in Callers :
          (CallStep(c) /\ callers'[c].ref \in failure_cache) =>
              /\ callers'[c].st = "done"
              /\ callers'[c].res = "none"
              /\ tasks' = tasks
              /\ active_downloads' = active_downloads]_vars

\* C9 as amended: a call for a reference in the negative-result set starts and
\* joins no download; it returns none unless its cache key is in the in-memory
\* path cache, in which case it returns the cached path.  The negative-result
\* set only loses entries when the process restarts.
C9_NegativeShortCircuit ==
    [][/\ \A c \in Callers :
             (CallStep(c) /\ callers'[c].ref \in failure_cache) =>
                 /\ callers'[c].st = "done"
                 /\ callers'[c].task = 0
                 /\ callers'[c].res =
                       (IF CacheKey(callers'[c].ref, callers'[c].size) \in path_cache
                        THEN "path" ELSE "none")
                 /\ tasks' = tasks
                 /\ active_downloads' = active_downloads
                 /\ sem_value' = sem_value
       /\ (~(failure_cache \subseteq failure_cache')) =>
             /\ failure_cache' = {}
             /\ path_cache' = {}
             /\ \A c \in Callers : callers'[c] = IdleCaller
             /\ \A t \in TaskIds : tasks'[t] = FreeTask]_vars

C9_Witness ==
    \E c \in Callers :
        /\ callers[c].st = "done"
        /\ callers[c].via = "negative"
        /\ callers[c].res = "none"
        /\ callers[c].ref \in failure_cache
        /\ CallerKey(c) \in disk
        /\ \E k \in path_cache : KeyRef(k) = callers[c].ref

\* C10: when a download has ended because every request it attempted failed,
\* the call returns none and the content reference is in the negative-result
\* set (stated as the claim states it; the code violates it).
C10_TotalFailureRecorded ==
    \A t \in TaskIds :
        (tasks[t].pc = "done" /\ tasks[t].why = "requests_failed") =>
            /\ tasks[t].res = "none"
            /\ KeyRef(tasks[t].key) \in failure_cache

\* a size is requested: always for avatars, for media when width and height
\* are given
SizeRequested(k) == mgr = "avatar" \/ KeySize(k) = "400_300"

\* C11: the requests of one download, for avatars and general media alike: at
\* most two; with a requested size the first one is the thumbnail request; a
\* full-resolution request never precedes a thumbnail request; and a download
\* that ended because its requests failed ended on the full-resolution
\* request, that is, a failed thumbnail request was followed by the full
\* download (stated as the claim states it; MediaManager violates it).
C11_ThumbnailThenFull ==
    \A t \in TaskIds :
        LET q == tasks[t].reqs IN
        /\ Len(q) <= 2
        /\ \A i \in DOMAIN q : \A j \in DOMAIN q :
              (i < j /\ q[i] = "full") => q[j] # "thumbnail"
        /\ (q # << >> /\ SizeRequested(tasks[t].key)) => q[1] = "thumbnail"
        /\ (tasks[t].pc = "done" /\ tasks[t].why = "requests_failed") =>
              q[Len(q)] = "full"

\* path_cache only loses entries when the process restarts
PathCacheKept ==
    \/ path_cache \subseteq path_cache'
    \/ /\ path_cache' = {}
       /\ \A c \in Callers : callers'[c] = IdleCaller
       /\ \A t \in TaskIds : tasks'[t] = FreeTask

\* the call of caller c in this step returned at once and touched no download
ReturnedAtOnce(c, res, via) ==
    /\ callers'[c] = Returned(callers'[c].ref, callers'[c].size, res, via)
    /\ tasks' = tasks
    /\ active_downloads' = active_downloads
    /\ sem_value' = sem_value

SlotsInside == crowd.inside + (IF probe.pc = "inside" THEN 1 ELSE 0)

SlotsHanded == crowd.woken + (IF probe.pc = "woken" THEN 1 ELSE 0)

SlotsQueued == crowd.waiting + (IF probe.pc = "waitsem" THEN 1 ELSE 0)

\* C13: bounded concurrency.  At most 30 avatar downloads and at most 10
\* general-media downloads are inside the network-fetch section; every slot
\* is either free, held by a download inside the section or handed to a
\* download about to enter it (a slot is given back on every exit path); a
\* download only waits while no slot is free or an earlier one is about to
\* enter; and a waiting download eventually enters the section.
C13_BoundedConcurrency ==
    /\ [](/\ SlotsInside <= (IF mgr = "avatar" THEN AvatarSemaphoreLimit
                             ELSE MediaSemaphoreLimit)
          /\ sem_value >= 0
          /\ SlotsInside + SlotsHanded + sem_value = SemaphoreLimit
          /\ (SlotsQueued > 0) => (sem_value = 0 \/ SlotsHanded > 0)
          /\ (probe.pc = "waitsem") => (probe.ahead <= crowd.waiting))
    /\ ((probe.pc = "waitsem") ~> (probe.pc = "inside"))

C13_Witness ==
    /\ probe.pc = "inside"
    /\ probe.waited
    /\ SlotsInside = SemaphoreLimit
    /\ sem_value = 0
    /\ crowd.waiting > 0

(***************************************************************************)
(* Properties of get_user_profile                                          *)
(***************************************************************************)
ProfileCallStep(c) == pcallers[c].st = "idle" /\ pcallers'[c].st # "idle"

FetchInFlight(t) == ptasks[t].pc \in {"created", "request"}

\* at most one fetch per user id is in flight, and whoever waits for a fetch
\* in flight waits for the registered fetch of that user id
CoalescedFetches ==
    /\ \A t1 \in PTaskIds : \A t2 \in PTaskIds :
          (FetchInFlight(t1) /\ FetchInFlight(t2) /\ ptasks[t1].user = ptasks[t2].user)
              => t1 = t2
    /\ \A c \in PCallers :
          (pcallers[c].st = "await" /\ FetchInFlight(pcallers[c].task)) =>
              /\ ptasks[pcallers[c].task].user = pcallers[c].user
              /\ pcallers[c].user \in DOMAIN profile_requests
              /\ profile_requests[pcallers[c].user] = pcallers[c].task

\* the call of caller c in this step returned at once, without a fetch
ProfileReturnedAtOnce(c, res, via) ==
    /\ pcallers'[c] = ProfileReturned(pcallers'[c].user, res, via)
    /\ ptasks' = ptasks
    /\ profile_requests' = profile_requests

\* cache, then fetch in flight, then a new fetch
ResolvedInOrder(c) ==
    LET u == pcallers'[c].user IN
    IF u \in DOMAIN profile_cache
    THEN ProfileReturnedAtOnce(c, profile_cache[u], "cache")
    ELSE IF u \in DOMAIN profile_requests
    THEN /\ pcallers'[c] = ProfileAwaiting(u, profile_requests[u], "join")
         /\ ptasks' = ptasks
         /\ profile_requests' = profile_requests
    ELSE \E t \in PTaskIds :
            /\ ptasks[t].pc = "free"
            /\ ptasks'[t].pc = "created"
            /\ ptasks'[t].user = u
            /\ \A t2 \in PTaskIds \ {t} : ptasks'[t2] = ptasks[t2]
            /\ profile_requests' = MapSet(profile_requests, u, t)
            /\ pcallers'[c] = ProfileAwaiting(u, t, "fetch")

\* a caller that waited for a fetch returns what the fetch returned
ResultDelivered ==
    \A c \in PCallers :
        (pcallers[c].st = "await" /\ pcallers'[c].st = "done") =>
            pcallers'[c].res = ptasks[pcallers[c].task].res

\* C14 as stated: every call resolves in the order cache, fetch in flight, new
\* fetch; at most one fetch per user id is in flight and all its callers get
\* its result (the code returns the empty record without looking at the cache
\* when there is no client).
C14_ResolutionOrder ==
    /\ []CoalescedFetches
    /\ [][/\ \A c \in PCallers : ProfileCallStep(c) => ResolvedInOrder(c)
          /\ ResultDelivered]_vars

\* C14 as amended: a call made while a client exists resolves in the order
\* cache, fetch in flight, new fetch; a call made without a client returns the
\* empty record at once; at most one fetch per user id is in flight and all
\* its callers get its result.
C14_ResolutionOrderWithClient ==
    /\ []CoalescedFetches
    /\ [][/\ \A c \in PCallers :
                ProfileCallStep(c) =>
                    IF client = "none"
                    THEN ProfileReturnedAtOnce(c, EmptyRecord, "no_client")
                    ELSE ResolvedInOrder(c)
          /\ ResultDelivered]_vars

C14_Witness ==
    \E c1 \in PCallers : \E c2 \in PCallers :
        /\ pcallers[c1].st = "done" /\ pcallers[c1].via = "fetch"
        /\ pcallers[c2].st = "done" /\ pcallers[c2].via = "join"
        /\ pcallers[c1].user = pcallers[c2].user
        /\ pcallers[c1].res = pcallers[c2].res
        /\ pcallers[c1].res \in Profiles
        /\ client = "ready"
        /\ pcallers[c1].user \in DOMAIN profile_cache

\* the fetch task t ends in this step without a profile
FetchFails(t) ==
    /\ FetchInFlight(t)
    /\ ptasks'[t].pc = "done"
    /\ ptasks'[t].res \notin Profiles

\* C15: get_user_profile never raises; when the fetch fails it returns the
\* empty record, the profile cache and the persisted file are unchanged and
\* the in-flight entry of the user id is removed, so that a later call for a
\* user id that is neither cached nor in flight starts a fresh fetch.
C15_FetchFailureHandled ==
    /\ [](/\ \A c \in PCallers : pcallers[c].res # Raised
          /\ \A t \in PTaskIds : ptasks[t].res # Raised)
    /\ [][/\ \A t \in PTaskIds :
                FetchFails(t) =>
                    /\ ptasks'[t].res = EmptyRecord
                    /\ profile_cache' = profile_cache
                    /\ profile_file' = profile_file
                    /\ ptasks[t].user \notin DOMAIN profile_requests'
          /\ \A c \in PCallers :
                (pcallers[c].st = "await" /\ pcallers'[c].st = "done"
                    /\ ptasks[pcallers[c].task].res \notin Profiles) =>
                        pcallers'[c].res = EmptyRecord
          /\ \A c \in PCallers :
                (ProfileCallStep(c) /\ client = "ready"
                    /\ pcallers'[c].user \notin DOMAIN profile_cache
                    /\ pcallers'[c].user \notin DOMAIN profile_requests) =>
                        /\ pcallers'[c].via = "fetch"
                        /\ ptasks'[pcallers'[c].task].pc = "created"]_vars

C15_Witness ==
    \E c1 \in PCallers : \E c2 \in PCallers :
        /\ pcallers[c1].st = "done" /\ pcallers[c1].via = "fetch"
        /\ pcallers[c1].res = EmptyRecord
        /\ pcallers[c2].st = "await" /\ pcallers[c2].via = "fetch"
        /\ pcallers[c2].user = pcallers[c1].user
        /\ pcallers[c1].user \notin DOMAIN profile_cache
        /\ profile_cache # EmptyMap
        /\ profile_file.state = "written"
        /\ load_profile_cache(profile_file) = profile_cache

IsSpace(ch) == ch \in {9, 10, 13, 32}

RECURSIVE LStrip(_)
LStrip(str) ==
    IF str # << >> /\ IsSpace(Head(str)) THEN LStrip(Tail(str)) ELSE str

RECURSIVE RStrip(_)
RStrip(str) ==
    IF str # << >> /\ IsSpace(str[Len(str)])
    THEN RStrip(SubSeq(str, 1, Len(str) - 1)) ELSE str

\* the identifier without leading and trailing whitespace
Trim(str) == RStrip(LStrip(str))

\* the call has got past the construction of the client
Restored == op.name = "restore_session" /\ op.pc \in {"keys", "done"} /\ op.before # NoRow

\* C17: when restore_session finds stored credentials, the client is
\* constructed with the trimmed user id and device id, the credential store
\* holds the trimmed form, and the restore does not report failure (stated as
\* the claim states it; the code uses and keeps the stored values as they
\* are).
C17_RestoreNormalizes ==
    Restored =>
        /\ nio.user = Trim(op.before.user_id)
        /\ nio.device_id = Trim(op.before.device_id)
        /\ creds # NoRow
        /\ creds.user_id = Trim(op.before.user_id)
        /\ creds.device_id = Trim(op.before.device_id)
        /\ op.ret # "False"

LoginReturned == op.name = "login" /\ op.pc = "done"

\* C18: login returns; it never lets an exception escape, and it returns
\* false when a step has failed: no homeserver, credentials rejected, the
\* login request raised, save_credentials raised, the key upload raised.
C18_LoginNeverRaises ==
    LoginReturned =>
        /\ op.ret \in {"True", "False"}
        /\ (op.failed # "none") => (op.ret = "False")
        /\ (op.failed = "none") => (op.ret = "True")

C18_Witness ==
    /\ LoginReturned
    /\ op.failed = "upload_raised"
    /\ op.ret = "False"
    /\ client = "ready"

\* C19: login returns true exactly when it has persisted the new session:
\* after true the store holds homeserver, user id, access token and device id
\* of the login response; after false the store is as it was before the
\* attempt (stated as the claim states it; the code violates the second
\* part).
C19_TrueIffPersisted ==
    LoginReturned =>
        /\ (op.ret = "True") => (creds = Row(homeserver, op.resp))
        /\ (op.ret = "False") => (creds = op.before)

LogoutReturned == op.name = "logout" /\ op.pc = "done"

\* C20: when logout has returned, there is no client and the credential
\* store is empty, whether the logout request succeeded, was answered with an
\* error, or raised, and also when there was no client.
C20_LogoutClears ==
    LogoutReturned =>
        /\ client = "none"
        /\ nio = NoIds
        /\ ~has_credentials(creds)

C20_Witness ==
    /\ LogoutReturned
    /\ op.failed = "raises"
    /\ op.before # NoRow
    /\ client = "none"
    /\ creds = NoRow

(***************************************************************************)
(* Properties of the sync loop                                             *)
(***************************************************************************)
\* C21: a sync loop ends only when its cancellation was requested: after an
\* error response or an exception of a sync call, the initial one or a later
\* one, it calls sync again (stated as the claim states it; in the code an
\* exception of the sync call ends the loop).
C21_RetryForever ==
    \A l \in LoopIds : loops[l].pc = "ended" => loops[l].cancel

\* C22: at most one sync call per client is in flight: no two sync loops
\* await a sync call of the same client object at the same time (stated as
\* the claim states it; start_sync creates a task whether or not one runs,
\* and logout does not stop the one that runs).
C22_OneSyncInFlight ==
    \A l1 \in LoopIds : \A l2 \in LoopIds :
        (Polling(l1) /\ Polling(l2) /\ loops[l1].on = loops[l2].on) => l1 = l2

\* a loop whose cancellation was requested makes no further sync call: its
\* next step ends it in "except asyncio.CancelledError"
AbandonedOnCancel ==
    \A l \in LoopIds :
        (loops[l].cancel /\ LoopRunning(l)) =>
            \/ loops'[l] = loops[l]
            \/ loops'[l] = Ended(l, "cancelled")

\* stop_sync returns None, and the task it awaited has ended
StoppedQuietly ==
    stopper.pc = "done" =>
        /\ stopper.ret = "None"
        /\ stopper.task # 0 => loops[stopper.task].pc = "ended"

NoLoopRunning == \A l \in LoopIds : ~LoopRunning(l)

\* C23: a cancellation request makes the loop end without a further sync call
\* and without an error for the requester, and when logout has returned no
\* sync loop is running (stated as the claim states it; logout in the code
\* requests no cancellation).
C23_CooperativeCancellation ==
    /\ [](StoppedQuietly /\ (LogoutReturned => NoLoopRunning))
    /\ [][AbandonedOnCancel]_vars

\* the numbers of the responses the observers were invoked with, in order
RECURSIVE Delivered(_)
Delivered(cs) ==
    IF cs = << >> THEN << >>
    ELSE IF Head(cs).arg = 0 THEN Delivered(Tail(cs))
    ELSE <<Head(cs).arg>> \o Delivered(Tail(cs))

\* every response is delivered at most once and in the order of receipt
DeliveredInOrder ==
    LET d == Delivered(calls) IN
    /\ \A i \in DOMAIN d : d[i] <= served
    /\ \A i \in DOMAIN d : \A j \in DOMAIN d : i < j => d[i] < d[j]

\* a step in which a SyncResponse is received invokes the registered observer
\* with it, once, before the loop awaits its next sync call
DeliveredOnReceipt ==
    served' # served =>
        /\ served' = served + 1
        /\ calls' = IF on_sync = "None" THEN calls
                    ELSE Append(calls, [cb |-> on_sync, arg |-> served'])

\* any other invocation is the one after a failed initial sync, with None
NoOtherDelivery ==
    (served' = served /\ calls' # calls) =>
        calls' = Append(calls, [cb |-> on_sync, arg |-> 0])

\* C24: for every SyncResponse the observer registered at that moment is
\* invoked exactly once with that response, in the order the responses were
\* received and before the next sync call is awaited.
C24_ObserverInvoked ==
    /\ []DeliveredInOrder
    /\ [][DeliveredOnReceipt /\ NoOtherDelivery]_vars

C24_Witness ==
    /\ Len(calls) = 2
    /\ calls[1] = [cb |-> "w1", arg |-> 1]
    /\ calls[2] = [cb |-> "w2", arg |-> 2]
    /\ served = 2
    /\ \E l \in LoopIds : loops[l].pc = "polling"

\* C25: no sync call is made for a session without an access token: every
\* sync call in flight was made with an access token (stated as the claim
\* states it; start_sync looks only at whether a client object exists, and
\* login leaves the object of a failed attempt in place).
C25_NoSyncUnauthenticated ==
    \A l \in LoopIds : Polling(l) => loops[l].token # "None"

(***************************************************************************)
(* Properties of the error reports of the session operations               *)
(***************************************************************************)
RestoreReturned == op.name = "restore_session" /\ op.pc = "done"

\* C26: authentication errors come back as false: login returns false when
\* the server rejects the credentials, and restore_session returns false when
\* the stored access token is one the server has revoked (stated as the claim
\* states it; restore_session in the code never returns false once a row is
\* stored).
C26_AuthErrorsAreFalse ==
    /\ (LoginReturned /\ op.failed = "rejected") => op.ret = "False"
    /\ (RestoreReturned /\ op.before # NoRow /\ op.before.access_token \in Revoked)
            => op.ret = "False"

\* C27: join_room and leave_room return a boolean and never raise; they
\* return true exactly when the server confirmed the join or the leave, and
\* false after an error response, after an exception and without a client
\* (stated as the claim states it; leave_room in the code does not look at
\* the response).
C27_MembershipResults ==
    \A c \in 1..MaxCallers :
        mcalls[c].pc = "done" =>
            /\ mcalls[c].ret \in {"True", "False"}
            /\ mcalls[c].ret = "True" <=>
                    mcalls[c].got \in {"JoinResponse", "RoomLeaveResponse"}

\* C28: a failed write to durable storage is absorbed: when save_credentials
\* fails during login, login still reports the success of the login and the
\* client keeps the session of the response (stated as the claim states it,
\* for the credential record; the code turns the failed write into a failed
\* login).
C28_PersistenceErrorsAbsorbed ==
    (LoginReturned /\ op.failed = "save_raised") =>
        /\ op.ret = "True"
        /\ client = "ready"
        /\ nio.access_token = op.resp.access_token

(***************************************************************************)
(* Properties of device verification                                       *)
(***************************************************************************)
\* the dialog of the transaction is up and shows "Verification successful!"
SuccessReported(tx) == dialog.open /\ dialog.tx = tx /\ dialog.status = "successful"

\* C29: a transaction that received a mac message before any key message
\* never reaches Done, and the dialog reports no success for it.
C29_MacBeforeKey ==
    \A tx \in TxIds :
        vtable[tx].early_mac => vtable[tx].state # "Done" /\ ~SuccessReported(tx)

\* every message of the normal flow has been sent and received
FlowComplete(t) ==
    /\ t.state \notin {"None", "Requested", "Cancelled"}
    /\ t.key_sent /\ t.key_rcvd
    /\ t.mac_sent /\ t.mac_rcvd
    /\ t.done_sent /\ t.done_rcvd

\* the user's confirmation of a transaction that waits for it sends our mac
ConfirmDrives ==
    \A tx \in TxIds :
        /\ dialog.open /\ dialog.tx = tx /\ dialog.status = "compare"
        /\ dialog'.status = "successful"
        /\ vtable[tx].state = "KeyExchanged" /\ ~vtable[tx].mac_sent
        => /\ vtable'[tx].mac_sent
           /\ vtable'[tx].state = IF vtable[tx].mac_rcvd THEN "MacExchanged"
                                                          ELSE "KeyExchanged"

\* a finished transaction takes no message but the request of a new one
DoneIsTerminal ==
    \A tx \in TxIds :
        vtable[tx].state = "Done" => vtable'[tx] \in {vtable[tx], NewTx}

Confirms == dialog.open /\ dialog'.status = "successful" /\ dialog.status # "successful"

\* C31: the confirm button of the dialog can be pressed only while the
\* emojis are shown, and it is pressed only after they have been shown.
C31_ConfirmAfterEmojis ==
    /\ [](dialog.confirm => dialog.open /\ dialog.emojis)
    /\ [][Confirms => dialog.emojis /\ dialog.confirm]_vars

\* the dialog shows the emojis and waits for the user's answer
C31_Witness ==
    /\ dialog.open
    /\ dialog.emojis
    /\ dialog.confirm
    /\ dialog.status = "compare"
    /\ vtable[dialog.tx].state = "KeyExchanged"

\* the exchange of the transaction has been verified: both macs are there
Verified(t) == t.state \in {"MacExchanged", "Done"} /\ t.mac_sent /\ t.mac_rcvd

\* C36: the dialog shows "Verification successful!" for a transaction only
\* when the confirmation was sent and the transaction is verified; it is not
\* shown for a transaction that was cancelled or whose macs are not complete.
C36_SuccessAfterVerified ==
    \A tx \in TxIds : SuccessReported(tx) => Verified(vtable[tx])

(***************************************************************************)
(* Properties of CredentialStorage                                         *)
(***************************************************************************)
\* what load_credentials has to return after the latest save or clear
AsSaved(ret) ==
    IF saved = NoSave THEN ret.none
    ELSE /\ ~ret.none
         /\ ret.dict.homeserver = saved.homeserver
         /\ ret.dict.user_id = saved.user_id
         /\ ret.dict.access_token = saved.access_token
         /\ ret.dict.device_id = saved.device_id

\* C32: the table holds at most one record; load_credentials returns the
\* four fields of the latest save whatever extra data came with it, and None
\* after a clear or without a save; has_credentials is true exactly when
\* load_credentials is not None.
C32_SingleRecord ==
    /\ Cardinality(cred_table) <= 1
    /\ AsSaved(LoadCredentials(cred_table))
    /\ HasCredentials(cred_table) = ~LoadCredentials(cred_table).none

(***************************************************************************)
(* Properties of the rounds of the sync loop                               *)
(***************************************************************************)
\* C33: a sync call that follows a successful sync response is issued only
\* when no key query or key upload is outstanding: the loop has done the
\* bookkeeping before it polls again.
C33_KeyBookkeeping ==
    keys_due => \A l \in LoopIds : ~(Polling(l) /\ loops[l].pc = "polling")

\* the step is a sync call returning in task l with the observer raising
ObserverRaised(l) ==
    /\ Polling(l)
    /\ loops'[l] # loops[l]
    /\ calls' # calls
    /\ cb_raised'

\* C34: when the observer raises for a response, of the initial sync or of
\* a later one, the loop is not left: the task goes on to the next sync call
\* exactly as it does when the observer returns.
C34_ObserverFailureDropped ==
    [][\A l \in LoopIds : ObserverRaised(l) => loops'[l] = SyncCall(l, "polling")]_vars

\* the observer has raised and the task that called it is in its next sync
C34_Witness ==
    /\ cb_raised
    /\ calls # << >>
    /\ \E l \in LoopIds : Polling(l) /\ loops[l].pc = "polling"

(***************************************************************************)
(* Properties of the message view                                          *)
(***************************************************************************)
\* C35: no event id is shown more than once in the message list.
C35_UniqueEventIds ==
    \A i, j \in 1..Len(message_list) :
        message_list[i] = message_list[j] /\ message_list[i] # LoadMoreRow => i = j

\* the step is the return of a history fetch that was started for room r
FetchOf(r) ==
    \E f \in 1..MaxFetches :
        fetches[f].pc = "served" /\ fetches[f].room = r /\ fetches'[f] = NoFetch

\* C38: when the history fetch of a room returns while another room, or no
\* room, is the current one, the message list stays as it is and the
\* pagination token is not replaced.
C38_OnlyCurrentRoom ==
    [][\A r \in RoomIds :
          FetchOf(r) /\ current_room_id # r
          => message_list' = message_list /\ prev_batch' = prev_batch]_vars

(***************************************************************************)
(* Properties of AvatarManager.clear_cache                                 *)
(***************************************************************************)
\* the step is the return of call c with a path
ReturnsPath(c) ==
    /\ callers[c].st # "done"
    /\ callers'[c].st = "done"
    /\ callers'[c].res = "path"

\* C37: every path that get_avatar returns is the path of a file that is in
\* the cache directory when the call returns, also after clear_cache.
C37_ClearEvicts ==
    [][\A c \in Callers :
          ReturnsPath(c) => CacheKey(callers'[c].ref, callers'[c].size) \in disk']_vars

(***************************************************************************)
(* Startup                                                                 *)
(***************************************************************************)

WindowShown == app.main_window \/ app.login_window

\* C39: after activation, whatever restore_session ends with (True, False,
\* or an exception of the key query), the main window or the login window
\* is eventually shown
C39_StartupEndsInWindow == (app.pc = "activated") ~> WindowShown

(***************************************************************************)
(* Structure of the get_hierarchy output                                   *)
(***************************************************************************)

NoRepeat(l) == \A i \in DOMAIN l : \A j \in DOMAIN l : l[i] = l[j] => i = j

\* C40: in every output of get_hierarchy every id in a children list, in
\* top_level_spaces and in orphans is a joined room id; no children list
\* holds an id twice; no children list is empty; and B is in children[A]
\* exactly when A is a joined parent of B in the union relation (stated as
\* the claim states it; the code violates the last part).
C40_StructuralInvariants ==
    Called =>
        /\ \A l \in OutputLists : Range(l) \subseteq JoinedIds
        /\ \A k \in DOMAIN hier.children :
              NoRepeat(hier.children[k]) /\ hier.children[k] # << >>
        /\ \A a \in JoinedIds : \A b \in JoinedIds :
              b \in ChildrenOf(a) <=> UnionParent(a, b)

====
